---- MODULE Spec2Model ----
(***************************************************************************)
(* A model of the webrender render backend (src/src/render_backend.rs):    *)
(* the coordinator's message loop, the flattener, the AABB tree, the       *)
(* per-tile compiler, the batch builder, the frame assembler and the       *)
(* batch-update protocol.                                                  *)
(*                                                                         *)
(* Coordinates are f32 in the source; the model uses integers and only     *)
(* inputs whose halvings and sums are exact in f32.  A Matrix4 is only     *)
(* ever built from the identity by translate(), so a transform is the      *)
(* translation vector [x, y].  Rust indices are 0-based and are kept       *)
(* 0-based in keys and node references; sequence accesses add one.         *)
(***************************************************************************)
EXTENDS Integers, Sequences, FiniteSets, TLC

VARIABLES
    \* RenderBackend
    display_list_map,      \* DisplayListID -> DisplayList
    draw_list_map,         \* DrawListID -> DrawList (a sequence of items)
    stacking_contexts,     \* PipelineId -> RootStackingContext
    texture_cache,         \* the render-target textures the cache has allocated
    \* Scene
    pipeline_epoch_map,
    nodes,                 \* aabb_tree.nodes
    flat_draw_lists,
    scroll_offset,
    render_targets,
    \* process-wide id counters (BatchId::new, DrawListID::new)
    next_batch_id,
    next_draw_list_id,
    \* the egress channel: what the renderer has been sent
    result_msgs,           \* the result messages of the latest message processed
    batch_log,             \* every BatchUpdate sent so far, in order (op, id)
    reset_at,              \* Len(batch_log) when Scene::reset last ran
    last_frame,            \* the latest NewFrame
    \* the ingress channel: what has been received
    msg_count,             \* [add, root]: messages processed, by kind
    scroll_hist,           \* the run of Scroll messages just processed
    panicked,              \* the coordinator thread died on an assertion
    \* DrawCommandBuilder::finalize, one loop iteration at a time
    fin,
    \* the api channel and the loop of RenderBackend::run
    api_rx,                \* the messages queued in the channel, oldest first
    api_tx_open,           \* a Sender of the channel is still alive
    run_returned,          \* run has returned
    api_sent,              \* every message sent so far, in order
    api_handled,           \* every message run has finished with, in order
    \* the worker pool of the scene
    font_context_count,    \* the static FONT_CONTEXT_COUNT
    workers,               \* per pool thread: the job it runs, its font contexts
    pool_queue,            \* the jobs of the open scope no thread has taken yet
    coordinator,           \* where the thread that owns the pool stands
    raster_jobs,           \* the GlyphRasterJob list of raster_glyphs
    cache_writes,          \* every write to the texture cache: who, and in which scope
    \* the resources of the backend
    font_templates,        \* the font ids AddFont registered
    image_templates,       \* the image ids AddImage registered
    glyph_to_image_map,    \* GlyphKey -> ImageID
    raster_to_image_map,   \* RasterItem -> ImageID
    image_items,           \* the image ids the texture cache holds an item for
    next_image_id,         \* process-wide id counter (ImageID::new)
    asset_log,             \* every raster job and texture-cache insert so far, in order
    compile_lookups        \* what compile looked up in the latest build_frame

backend_vars == <<display_list_map, draw_list_map, stacking_contexts, texture_cache>>
scene_vars == <<pipeline_epoch_map, nodes, flat_draw_lists, scroll_offset, render_targets>>
id_vars == <<next_batch_id, next_draw_list_id>>
egress_vars == <<result_msgs, batch_log, reset_at, last_frame>>
ingress_vars == <<msg_count, scroll_hist, panicked>>
channel_vars == <<api_rx, api_tx_open, run_returned, api_sent, api_handled>>
pool_vars == <<font_context_count, workers, pool_queue, coordinator, raster_jobs, cache_writes>>
asset_vars == <<font_templates, image_templates, glyph_to_image_map, raster_to_image_map,
                image_items, next_image_id, asset_log, compile_lookups>>
vars == <<backend_vars, scene_vars, id_vars, egress_vars, ingress_vars, fin,
          channel_vars, pool_vars, asset_vars>>

\* Option<T>: None is the empty sequence, Some(x) the sequence of x alone
None == <<>>

Some(x) == <<x>>

Unwrap(o) == o[1]

----------------------------------------------------------------------------
(* Bounds of the model *)

MaxAddDisplayList == 2
MaxSetRoot == 2
MaxScroll == 2

(* Program constants *)

MAX_MATRICES_PER_BATCH == 32
MAX_VERTICES_PER_BATCH == 65535
SPLIT_SIZE == 512

----------------------------------------------------------------------------
(* euclid: Point2D, Rect, Matrix4 restricted to translations *)

Point(x, y) == [x |-> x, y |-> y]

MkRect(x, y, w, h) == [x |-> x, y |-> y, w |-> w, h |-> h]

Min(a, b) == IF a < b THEN a ELSE b

Max(a, b) == IF a > b THEN a ELSE b

max_x(r) == r.x + r.w

max_y(r) == r.y + r.h

intersects(a, b) ==
    /\ a.x < max_x(b)
    /\ b.x < max_x(a)
    /\ a.y < max_y(b)
    /\ b.y < max_y(a)

intersection(a, b) ==
    IF ~intersects(a, b) THEN None
    ELSE LET x0 == Max(a.x, b.x)
             y0 == Max(a.y, b.y)
         IN  Some(MkRect(x0, y0, Min(max_x(a), max_x(b)) - x0,
                         Min(max_y(a), max_y(b)) - y0))

identity == Point(0, 0)

translate(m, x, y) == Point(m.x + x, m.y + y)

transform_point(m, p) == Point(p.x + m.x, p.y + m.y)

transform_rect(m, r) == MkRect(r.x + m.x, r.y + m.y, r.w, r.h)

translate_rect(r, p) == MkRect(r.x + p.x, r.y + p.y, r.w, r.h)

Last(s) == s[Len(s)]

----------------------------------------------------------------------------
(* DisplayItemKey *)

Key(draw_list_index, item_index) ==
    [draw_list_index |-> draw_list_index, item_index |-> item_index]

KeyLess(a, b) ==
    \/ a.draw_list_index < b.draw_list_index
    \/ a.draw_list_index = b.draw_list_index /\ a.item_index < b.item_index

----------------------------------------------------------------------------
(* Display items, as the layout engine builds them *)

RectangleItem(rect) ==
    [item |-> "Rectangle", rect |-> rect, clip |-> rect, node_index |-> None]

IframeItem(rect, pipeline) ==
    [item |-> "Iframe", rect |-> rect, clip |-> rect, node_index |-> None,
     iframe |-> pipeline]

CompositeItem(overflow, texture_id, blend_mode) ==
    [item |-> "Composite", rect |-> overflow, clip |-> overflow, node_index |-> None,
     texture_id |-> texture_id, blend_mode |-> blend_mode]

ImageItem(rect, image_id) ==
    [item |-> "Image", rect |-> rect, clip |-> rect, node_index |-> None,
     image_id |-> image_id]

\* glyphs is the sequence of the glyph indices of the run
TextItem(rect, font_id, size, blur_radius, glyphs) ==
    [item |-> "Text", rect |-> rect, clip |-> rect, node_index |-> None,
     font_id |-> font_id, size |-> size, blur_radius |-> blur_radius, glyphs |-> glyphs]

\* a border whose four sides have one width and style and whose four corners have
\* one circular radius
BorderItem(rect, radius, width, style) ==
    [item |-> "Border", rect |-> rect, clip |-> rect, node_index |-> None,
     radius |-> radius, width |-> width, style |-> style]

BoxShadowItem(rect, blur_radius, spread_radius, border_radius, clip_mode) ==
    [item |-> "BoxShadow", rect |-> rect, clip |-> rect, node_index |-> None,
     blur_radius |-> blur_radius, spread_radius |-> spread_radius,
     border_radius |-> border_radius, clip_mode |-> clip_mode]

----------------------------------------------------------------------------
(* Texture cache interface: render-target textures *)

allocate_render_target(tc) ==
    [id |-> tc.next,
     tc |-> [tc EXCEPT !.next = @ + 1, !.allocated = @ \cup {tc.next},
                       !.pending_updates = Append(@, [op |-> "Allocate", id |-> tc.next])]]

free_render_target(tc, texture_id) ==
    [tc EXCEPT !.allocated = @ \ {texture_id}, !.freed = Append(@, texture_id),
               !.pending_updates = Append(@, [op |-> "Free", id |-> texture_id])]

----------------------------------------------------------------------------
(* Flattener.  The flatten state fs carries what flatten_stacking_context  *)
(* mutates: scene.flat_draw_lists (flat), scene.render_targets (rts),      *)
(* scene.render_target_stack (stack), scene.pipeline_epoch_map (epochs),   *)
(* the backend's draw_list_map (dlm) and texture cache (tc); panic is set  *)
(* when an expect() or an index of a missing key fails.                    *)

\* a flattener that isolates nothing: BlendIsolation is checked against it as well
never_needs_render_target(stacking_context) == FALSE

needs_render_target(stacking_context) ==
    stacking_context.mix_blend_mode # "Normal"

RenderTarget(size, texture_id) ==
    [size |-> size, draw_list_indices |-> <<>>, texture_id |-> texture_id]

push_render_target(fs, size, texture_id) ==
    [fs EXCEPT !.stack = Append(@, Len(fs.rts)),
               !.rts = Append(@, RenderTarget(size, texture_id))]

current_render_target(fs) == Last(fs.stack)

\* a pop that leaves the stack as it is: RenderTargetBookkeeping is checked against
\* it as well
pop_no_render_target(fs) == fs

pop_render_target(fs) ==
    [fs EXCEPT !.stack = SubSeq(@, 1, Len(@) - 1)]

push_draw_list(fs, id, draw_list, draw_context) ==
    LET current == Last(fs.stack)
        draw_list_index == Len(fs.flat)
    IN  [fs EXCEPT !.rts[current + 1].draw_list_indices = Append(@, draw_list_index),
                   !.flat = Append(@, [id |-> id,
                                       draw_context |-> draw_context,
                                       draw_list |-> draw_list])]

RECURSIVE IframesOf(_, _, _)
IframesOf(items, i, draw_context) ==
    IF i > Len(items) THEN <<>>
    ELSE (IF items[i].item = "Iframe"
          THEN <<[id |-> items[i].iframe,
                  offset |-> transform_point(draw_context.final_transform,
                                             Point(items[i].rect.x, items[i].rect.y))]>>
          ELSE <<>>) \o IframesOf(items, i + 1, draw_context)

\* an add_draw_list that leaves the list in the map as well: DrawListsConserved is
\* checked against it as well
add_draw_list_copy(acc, draw_list_id, draw_context) ==
    IF draw_list_id \notin DOMAIN acc.fs.dlm
    THEN [acc EXCEPT !.fs.panic = TRUE]
    ELSE [fs |-> push_draw_list(acc.fs, Some(draw_list_id), acc.fs.dlm[draw_list_id],
                                draw_context),
          iframes |-> acc.iframes]

\* Scene::add_draw_list; acc is [fs, iframes]
add_draw_list(acc, draw_list_id, draw_context) ==
    IF draw_list_id \notin DOMAIN acc.fs.dlm
    THEN [acc EXCEPT !.fs.panic = TRUE]
    ELSE LET draw_list == acc.fs.dlm[draw_list_id]
             rest == [d \in (DOMAIN acc.fs.dlm) \ {draw_list_id} |-> acc.fs.dlm[d]]
         IN  [fs |-> push_draw_list([acc.fs EXCEPT !.dlm = rest],
                                    Some(draw_list_id), draw_list, draw_context),
              iframes |-> acc.iframes \o IframesOf(draw_list, 1, draw_context)]

RECURSIVE AddDrawLists(_, _, _)
AddDrawLists(acc, ids, draw_context) ==
    IF ids = <<>> \/ acc.fs.panic THEN acc
    ELSE AddDrawLists(add_draw_list(acc, Head(ids), draw_context), Tail(ids), draw_context)

\* push_draw_list_id: the id, when there is one
Present(id) == id

EmptyDrawLists ==
    [background_and_borders |-> <<>>, block_background_and_borders |-> <<>>,
     floats |-> <<>>, content |-> <<>>, positioned_content |-> <<>>, outlines |-> <<>>]

\* a collector that reads every display list as one of mode Default: ModeRouting is
\* checked against it as well
CollectAsDefault(result, display_list) ==
    [background_and_borders |->
         result.background_and_borders \o Present(display_list.background_and_borders_id),
     block_background_and_borders |->
         result.block_background_and_borders
             \o Present(display_list.block_backgrounds_and_borders_id),
     floats |-> result.floats \o Present(display_list.floats_id),
     content |-> result.content \o Present(display_list.content_id),
     positioned_content |->
         result.positioned_content \o Present(display_list.positioned_content_id),
     outlines |-> result.outlines \o Present(display_list.outlines_id)]

\* one iteration of the loop of collect_draw_lists
CollectOne(result, display_list) ==
    LET all == Present(display_list.background_and_borders_id)
               \o Present(display_list.block_backgrounds_and_borders_id)
               \o Present(display_list.floats_id)
               \o Present(display_list.content_id)
               \o Present(display_list.positioned_content_id)
               \o Present(display_list.outlines_id)
    IN  CASE display_list.mode = "Default" ->
               [background_and_borders |->
                    result.background_and_borders \o Present(display_list.background_and_borders_id),
                block_background_and_borders |->
                    result.block_background_and_borders
                        \o Present(display_list.block_backgrounds_and_borders_id),
                floats |-> result.floats \o Present(display_list.floats_id),
                content |-> result.content \o Present(display_list.content_id),
                positioned_content |->
                    result.positioned_content \o Present(display_list.positioned_content_id),
                outlines |-> result.outlines \o Present(display_list.outlines_id)]
          [] display_list.mode = "PseudoFloat" ->
               [result EXCEPT !.floats = @ \o all]
          [] display_list.mode = "PseudoPositionedContent" ->
               [result EXCEPT !.positioned_content = @ \o all]

RECURSIVE collect_draw_lists(_, _, _)
collect_draw_lists(display_list_ids, i, display_lists) ==
    IF i = 0 THEN EmptyDrawLists
    ELSE CollectOne(collect_draw_lists(display_list_ids, i - 1, display_lists),
                    display_lists[display_list_ids[i]])

RECURSIVE flatten_stacking_context(_, _, _, _, _)
RECURSIVE FlattenChildren(_, _, _, _, _)
RECURSIVE FlattenIframes(_, _, _)

\* env: [display_list_map, stacking_contexts, device_pixel_ratio]
flatten_stacking_context(fs, is_root, ctx, transform0, env) ==
    LET stacking_context == IF is_root THEN ctx.stacking_context ELSE ctx
        missing == \E i \in 1..Len(stacking_context.display_lists) :
                       stacking_context.display_lists[i] \notin DOMAIN env.display_list_map
        transform1 == translate(transform0, stacking_context.bounds.x,
                                stacking_context.bounds.y)
        draw_context0 == [render_target_index |-> current_render_target(fs),
                          overflow |-> stacking_context.overflow,
                          device_pixel_ratio |-> env.device_pixel_ratio,
                          final_transform |-> transform1]
        needs == needs_render_target(stacking_context)
        size == [width |-> stacking_context.overflow.w,
                 height |-> stacking_context.overflow.h]
        alloc == allocate_render_target(fs.tc)
        fs1 == IF needs
               THEN push_render_target(
                        push_draw_list([fs EXCEPT !.tc = alloc.tc], None,
                                       <<CompositeItem(stacking_context.overflow, alloc.id,
                                                       stacking_context.mix_blend_mode)>>,
                                       draw_context0),
                        size, Some(alloc.id))
               ELSE fs
        transform == IF needs THEN identity ELSE transform1
        draw_context == IF needs
                        THEN [draw_context0 EXCEPT
                                 !.final_transform = identity,
                                 !.render_target_index = current_render_target(fs1)]
                        ELSE draw_context0
        fs2 == IF is_root
               THEN LET e == [p \in (DOMAIN fs1.epochs) \cup {ctx.pipeline_id} |->
                                 IF p = ctx.pipeline_id THEN ctx.epoch ELSE fs1.epochs[p]]
                        f == [fs1 EXCEPT !.epochs = e]
                    IN  IF ctx.background_color.a > 0
                        THEN push_draw_list(f, None,
                                            <<RectangleItem(stacking_context.overflow)>>,
                                            draw_context)
                        ELSE f
               ELSE fs1
        ids == collect_draw_lists(stacking_context.display_lists,
                                  Len(stacking_context.display_lists),
                                  env.display_list_map)
        a1 == AddDrawLists([fs |-> fs2, iframes |-> <<>>],
                           ids.background_and_borders, draw_context)
        c1 == FlattenChildren(a1.fs, stacking_context.children, TRUE, transform, env)
        a2 == AddDrawLists([fs |-> c1, iframes |-> a1.iframes],
                           ids.block_background_and_borders \o ids.floats
                               \o ids.content \o ids.positioned_content,
                           draw_context)
        c2 == FlattenChildren(a2.fs, stacking_context.children, FALSE, transform, env)
        f3 == FlattenIframes(c2, a2.iframes, env)
        a3 == AddDrawLists([fs |-> f3, iframes |-> a2.iframes], ids.outlines, draw_context)
    IN  IF fs.panic THEN fs
        ELSE IF missing THEN [fs EXCEPT !.panic = TRUE]
        ELSE IF needs THEN pop_render_target(a3.fs)
        ELSE a3.fs

\* a flattener that takes the children in one pass, before the content of their
\* parent: FlattenOrder is checked against it as well
RECURSIVE FlattenChildrenInOnePass(_, _, _, _, _)
FlattenChildrenInOnePass(fs, children, negative, transform, env) ==
    IF children = <<>> \/ fs.panic \/ ~negative THEN fs
    ELSE FlattenChildrenInOnePass(
             flatten_stacking_context(fs, FALSE, Head(children), transform, env),
             Tail(children), negative, transform, env)

\* the two loops over stacking_context.children: negative z first, the rest later
FlattenChildren(fs, children, negative, transform, env) ==
    IF children = <<>> \/ fs.panic THEN fs
    ELSE LET child == Head(children)
             skip == IF negative THEN child.z_index >= 0 ELSE child.z_index < 0
         IN  FlattenChildren(
                 IF skip THEN fs
                 ELSE flatten_stacking_context(fs, FALSE, child, transform, env),
                 Tail(children), negative, transform, env)

FlattenIframes(fs, iframes, env) ==
    IF iframes = <<>> \/ fs.panic THEN fs
    ELSE LET iframe_info == Head(iframes)
         IN  FlattenIframes(
                 IF iframe_info.id \in DOMAIN env.stacking_contexts
                 THEN flatten_stacking_context(
                          fs, TRUE, env.stacking_contexts[iframe_info.id],
                          translate(identity, iframe_info.offset.x, iframe_info.offset.y),
                          env)
                 ELSE fs,
                 Tail(iframes), env)

----------------------------------------------------------------------------
(* Spatial index *)

AABBTreeNode(rect, node_index) ==
    [rect |-> rect, node_index |-> node_index, children |-> None,
     is_visible |-> FALSE, src_items |-> <<>>,
     resource_list |-> None, compiled_node |-> None]

\* AABBTree::init
init(scene_rect) == <<AABBTreeNode(scene_rect, 0)>>

\* a test that takes the width of a square as well: SplitRule is checked against
\* it as well
SplitsByWidthOrSquare(rect) == rect.w > SPLIT_SIZE /\ rect.w >= rect.h

SplitsByWidth(rect) == rect.w > SPLIT_SIZE /\ rect.w > rect.h

SplitsByHeight(rect) == rect.h > SPLIT_SIZE

split_if_needed(tree, node_index) ==
    LET rect == tree[node_index + 1].rect
        new_width == rect.w \div 2
        new_height == rect.h \div 2
        child_node_index == Len(tree)
        push(left, right) ==
            [Append(Append(tree, AABBTreeNode(left, child_node_index)),
                    AABBTreeNode(right, child_node_index + 1))
                EXCEPT ![node_index + 1].children = Some(child_node_index)]
    IN  IF tree[node_index + 1].children # None THEN tree
        ELSE IF SplitsByWidth(rect)
        THEN push(MkRect(rect.x, rect.y, new_width, rect.h),
                  MkRect(rect.x + new_width, rect.y, rect.w - new_width, rect.h))
        ELSE IF SplitsByHeight(rect)
        THEN push(MkRect(rect.x, rect.y, rect.w, new_height),
                  MkRect(rect.x, rect.y + new_height, rect.w, rect.h - new_height))
        ELSE tree

\* a descent that keeps at the node an item neither child intersects: InsertRule is
\* checked against it as well
RECURSIVE find_best_node_keeping(_, _, _)
find_best_node_keeping(tree0, node_index, rect) ==
    LET tree == split_if_needed(tree0, node_index)
        children == tree[node_index + 1].children
        child == Unwrap(children)
        left_intersect == intersects(tree[child + 1].rect, rect)
        right_intersect == intersects(tree[child + 2].rect, rect)
    IN  IF children = None THEN [tree |-> tree, node |-> Some(node_index)]
        ELSE IF left_intersect /\ ~right_intersect
        THEN find_best_node_keeping(tree, child, rect)
        ELSE IF right_intersect /\ ~left_intersect
        THEN find_best_node_keeping(tree, child + 1, rect)
        ELSE [tree |-> tree, node |-> Some(node_index)]

RECURSIVE find_best_node(_, _, _)
find_best_node(tree0, node_index, rect) ==
    LET tree == split_if_needed(tree0, node_index)
        children == tree[node_index + 1].children
        child == Unwrap(children)
        left_intersect == intersects(tree[child + 1].rect, rect)
        right_intersect == intersects(tree[child + 2].rect, rect)
    IN  IF children = None THEN [tree |-> tree, node |-> Some(node_index)]
        ELSE IF left_intersect /\ right_intersect
        THEN [tree |-> tree, node |-> Some(node_index)]
        ELSE IF left_intersect THEN find_best_node(tree, child, rect)
        ELSE IF right_intersect THEN find_best_node(tree, child + 1, rect)
        ELSE [tree |-> tree, node |-> None]

\* a tree that files an item twice: SingleAssignment is checked against it as well
append_item_twice(tree, node_index, draw_list_index, item_index) ==
    [tree EXCEPT ![node_index + 1].src_items =
        Append(Append(@, Key(draw_list_index, item_index)),
               Key(draw_list_index, item_index))]

append_item(tree, node_index, draw_list_index, item_index) ==
    [tree EXCEPT ![node_index + 1].src_items = Append(@, Key(draw_list_index, item_index))]

insert(tree, rect, draw_list_index, item_index) ==
    LET best == find_best_node(tree, 0, rect)
    IN  [tree |-> IF best.node = None THEN best.tree
                  ELSE append_item(best.tree, Unwrap(best.node), draw_list_index,
                                   item_index),
         node |-> best.node]

\* the double loop of build_aabb_tree, from item (dl, ii) on; st is [tree, flat, panic]
RECURSIVE BuildItems(_, _, _)
BuildItems(st, dl, ii) ==
    IF dl >= Len(st.flat) THEN st
    ELSE IF ii >= Len(st.flat[dl + 1].draw_list) THEN BuildItems(st, dl + 1, 0)
    ELSE LET flat_draw_list == st.flat[dl + 1]
             item == flat_draw_list.draw_list[ii + 1]
             rect == transform_rect(flat_draw_list.draw_context.final_transform, item.rect)
             r == insert(st.tree, rect, dl, ii)
         IN  IF item.node_index # None THEN [st EXCEPT !.panic = TRUE]
             ELSE BuildItems([tree |-> r.tree,
                              flat |-> [st.flat EXCEPT
                                           ![dl + 1].draw_list[ii + 1].node_index = r.node],
                              panic |-> FALSE],
                             dl, ii + 1)

build_aabb_tree(flat, scene_rect) ==
    BuildItems([tree |-> init(scene_rect), flat |-> flat, panic |-> FALSE], 0, 0)

RECURSIVE check_node_visibility(_, _, _)
check_node_visibility(tree, node_index, rect) ==
    IF ~intersects(tree[node_index + 1].rect, rect) THEN tree
    ELSE LET t1 == [tree EXCEPT ![node_index + 1].is_visible = TRUE]
             children == tree[node_index + 1].children
             child == Unwrap(children)
         IN  IF children = None THEN t1
             ELSE check_node_visibility(check_node_visibility(t1, child, rect),
                                        child + 1, rect)

\* a cull that leaves the marks of the cull before: CullMarks is checked against it
\* as well
cull_keeping(tree, rect) ==
    IF Len(tree) > 0 THEN check_node_visibility(tree, 0, rect) ELSE tree

cull(tree, rect) ==
    LET cleared == [i \in 1..Len(tree) |-> [tree[i] EXCEPT !.is_visible = FALSE]]
    IN  IF Len(tree) > 0 THEN check_node_visibility(cleared, 0, rect) ELSE cleared

----------------------------------------------------------------------------
(* Batch builder *)

RenderBatch(batch_id, sort_key, program_id, color_texture_id, mask_texture_id) ==
    [batch_id |-> batch_id, sort_key |-> sort_key, program_id |-> program_id,
     color_texture_id |-> color_texture_id, mask_texture_id |-> mask_texture_id,
     vertices |-> <<>>, indices |-> 0, matrix_map |-> <<>>]

\* the vertex buffer of a batch is kept as the runs of vertices the render items
\* added, [sort_key, index_offset, vertex_count, primitive] each; vertices.len() is
\* where the last run ends
VerticesLen(vertices) ==
    IF vertices = <<>> THEN 0
    ELSE Last(vertices).index_offset + Last(vertices).vertex_count

\* a batch that never counts its palette slots: MatrixCap is checked against it
\* as well
can_add_any_matrix(batch, item, key, program_id) ==
    /\ program_id = batch.program_id
    /\ item.color_texture_id = batch.color_texture_id
    /\ item.mask_texture_id = batch.mask_texture_id
    /\ VerticesLen(batch.vertices) < MAX_VERTICES_PER_BATCH

can_add_to_batch(batch, item, key, program_id) ==
    LET matrix_ok == \/ Cardinality(DOMAIN batch.matrix_map) < MAX_MATRICES_PER_BATCH
                     \/ key.draw_list_index \in DOMAIN batch.matrix_map
    IN  /\ program_id = batch.program_id
        /\ item.color_texture_id = batch.color_texture_id
        /\ item.mask_texture_id = batch.mask_texture_id
        /\ VerticesLen(batch.vertices) < MAX_VERTICES_PER_BATCH
        /\ matrix_ok

\* "x as u16" of a usize
AsU16(x) == x % 65536

\* a + b of u16: past 65,535 the sum wraps, or, in a build that checks
\* arithmetic, the thread panics (Overflowed)
Overflowed == -1

AddU16(a, b, checked) ==
    IF a + b > 65535 /\ checked THEN Overflowed ELSE (a + b) % 65536

\* the six indices add_draw_item pushes for the four vertices i..i+3 of a run of
\* rectangles or glyphs that starts at index_offset
QuadIndices(index_offset, i, checked) ==
    LET index_base == AsU16(index_offset + i)
    IN  <<AddU16(index_base, 0, checked), AddU16(index_base, 1, checked),
          AddU16(index_base, 2, checked), AddU16(index_base, 2, checked),
          AddU16(index_base, 3, checked), AddU16(index_base, 1, checked)>>

\* the three indices add_draw_item pushes for the i-th triangle of a fan
FanIndices(index_offset, i) ==
    <<AsU16(index_offset), AsU16(index_offset + i), AsU16(index_offset + i + 1)>>

\* indices is the length of the index buffer; what it holds for a run is
\* QuadIndices of every fourth i below vertex_count, or FanIndices of every i
\* in 1..vertex_count-2
add_draw_item(batch, item, key) ==
    LET next_matrix_index == Cardinality(DOMAIN batch.matrix_map)
        index_offset == VerticesLen(batch.vertices)
        map == IF key.draw_list_index \in DOMAIN batch.matrix_map
               THEN batch.matrix_map
               ELSE batch.matrix_map @@ (key.draw_list_index :> next_matrix_index)
        new_indices == IF item.primitive = "TriangleFan"
                       THEN 3 * (item.vertex_count - 2)
                       ELSE 6 * ((item.vertex_count + 3) \div 4)
    IN  [batch EXCEPT !.matrix_map = map,
                      !.indices = @ + new_indices,
                      !.vertices = Append(@, [sort_key |-> key,
                                               index_offset |-> index_offset,
                                               vertex_count |-> item.vertex_count,
                                               primitive |-> item.primitive])]

ProgramOf(builder, info) ==
    IF info.primitive = "Glyphs" THEN builder.glyph_program_id ELSE builder.quad_program_id

BatchCommand(builder, batch) ==
    [render_target |-> builder.render_target_index,
     sort_key |-> batch.sort_key,
     info |-> [kind |-> "Batch", batch_id |-> batch.batch_id]]

\* a take that pushes the batch and no command: BatchFormation is checked against it
\* as well
FlushUnannounced(builder, st) ==
    IF st.current_batch = None THEN st
    ELSE [st EXCEPT !.batches = Append(@, Unwrap(st.current_batch)),
                    !.current_batch = None]

\* "if let Some(current_batch) = current_batch.take()": close the open batch
Flush(builder, st) ==
    IF st.current_batch = None THEN st
    ELSE [st EXCEPT !.draw_commands =
                        Append(@, BatchCommand(builder, Unwrap(st.current_batch))),
                    !.batches = Append(@, Unwrap(st.current_batch)),
                    !.current_batch = None]

\* an iteration that leaves the open batch open at a Composite: CompositeFlushes is
\* checked against it as well
FinalizeItemAcrossComposite(builder, st, item) ==
    IF item.kind = "Draw"
    THEN LET program_id == ProgramOf(builder, item)
             need_new_batch ==
                 \/ st.current_batch = None
                 \/ ~can_add_to_batch(Unwrap(st.current_batch), item, item.sort_key,
                                      program_id)
             s1 == IF need_new_batch
                   THEN [Flush(builder, st) EXCEPT
                            !.current_batch =
                                Some(RenderBatch(st.next_batch_id, item.sort_key, program_id,
                                                 item.color_texture_id, item.mask_texture_id)),
                            !.next_batch_id = @ + 1]
                   ELSE st
         IN  [s1 EXCEPT !.current_batch =
                            Some(add_draw_item(Unwrap(@), item, item.sort_key))]
    ELSE [st EXCEPT !.draw_commands =
             Append(@, [render_target |-> builder.render_target_index,
                        sort_key |-> item.sort_key,
                        info |-> [kind |-> "Composite", blend_mode |-> item.blend_mode,
                                  rect |-> item.rect,
                                  color_texture_id |-> item.color_texture_id]])]

\* one iteration of the loop of finalize; st is
\* [current_batch, draw_commands, batches, next_batch_id]
FinalizeItem(builder, st, item) ==
    IF item.kind = "Draw"
    THEN LET program_id == ProgramOf(builder, item)
             need_new_batch ==
                 \/ st.current_batch = None
                 \/ ~can_add_to_batch(Unwrap(st.current_batch), item, item.sort_key,
                                      program_id)
             s1 == IF need_new_batch
                   THEN [Flush(builder, st) EXCEPT
                            !.current_batch =
                                Some(RenderBatch(st.next_batch_id, item.sort_key, program_id,
                                                 item.color_texture_id, item.mask_texture_id)),
                            !.next_batch_id = @ + 1]
                   ELSE st
         IN  [s1 EXCEPT !.current_batch =
                            Some(add_draw_item(Unwrap(@), item, item.sort_key))]
    ELSE LET s1 == Flush(builder, st)
             cmd == [render_target |-> builder.render_target_index,
                     sort_key |-> item.sort_key,
                     info |-> [kind |-> "Composite", blend_mode |-> item.blend_mode,
                               rect |-> item.rect,
                               color_texture_id |-> item.color_texture_id]]
         IN  [s1 EXCEPT !.draw_commands = Append(@, cmd)]

\* "for item in self.render_items", from the i-th item on
RECURSIVE FinalizeItems(_, _, _)
FinalizeItems(builder, st, i) ==
    IF i > Len(builder.render_items) THEN st
    ELSE FinalizeItems(builder, FinalizeItem(builder, st, builder.render_items[i]), i + 1)

\* the locals of finalize before the loop
FinalizeStart(batch_id) ==
    [current_batch |-> None, draw_commands |-> <<>>, batches |-> <<>>,
     next_batch_id |-> batch_id]

\* returns [batches, draw_commands, next_batch_id]
finalize(builder, batch_id) ==
    Flush(builder, FinalizeItems(builder, FinalizeStart(batch_id), 1))

----------------------------------------------------------------------------
(* Per-tile compiler *)

QuadProgram == "quad_program"

GlyphProgram == "glyph_program"

WhiteTexture == "white_texture"

DummyMaskTexture == "dummy_mask_texture"

DrawCommandBuilder(render_target_index) ==
    [quad_program_id |-> QuadProgram, glyph_program_id |-> GlyphProgram,
     render_target_index |-> render_target_index, render_items |-> <<>>]

\* clipper::clip_rect_with_mode_and_to_region_pos_uv for a clip region with no
\* complex part: the part of the rectangle inside the clip, when there is one
ClipRegions(rect, clip) ==
    LET r == intersection(rect, clip)
    IN  IF r = None \/ Unwrap(r).w = 0 \/ Unwrap(r).h = 0 THEN <<>> ELSE r

add_axis_aligned_gradient(builder, sort_key, rect, clip) ==
    IF rect.w = 0 \/ rect.h = 0 THEN builder
    ELSE LET regions == ClipRegions(rect, clip)
         IN  [builder EXCEPT !.render_items =
                 @ \o [i \in 1..Len(regions) |->
                          [kind |-> "Draw", sort_key |-> sort_key,
                           color_texture_id |-> WhiteTexture,
                           mask_texture_id |-> DummyMaskTexture,
                           primitive |-> "Rectangles", vertex_count |-> 4]]]

add_rectangle(builder, sort_key, rect, clip) ==
    add_axis_aligned_gradient(builder, sort_key, rect, clip)

\* add_gradient: a triangle fan for every pair of stops whose band the clipper
\* leaves a polygon of; polygons are the numbers of vertices clip_polygon returns
\* for the pairs, in order
add_gradient(builder, sort_key, polygons) ==
    [builder EXCEPT !.render_items =
        @ \o [i \in 1..Len(SelectSeq(polygons, LAMBDA n : n >= 3)) |->
                 [kind |-> "Draw", sort_key |-> sort_key,
                  color_texture_id |-> WhiteTexture,
                  mask_texture_id |-> DummyMaskTexture,
                  primitive |-> "TriangleFan",
                  vertex_count |-> SelectSeq(polygons, LAMBDA n : n >= 3)[i]]]]

GlyphTexture == "glyph_texture"

\* add_text for a run whose glyphs all sit in the texture of the first one: one Draw
\* item of four vertices a glyph, and none for an empty run of vertices
add_text(builder, sort_key, glyphs) ==
    IF 4 * glyphs > 0
    THEN [builder EXCEPT !.render_items =
             Append(@, [kind |-> "Draw", sort_key |-> sort_key,
                        color_texture_id |-> GlyphTexture,
                        mask_texture_id |-> DummyMaskTexture,
                        primitive |-> "Glyphs", vertex_count |-> 4 * glyphs])]
    ELSE builder

ImageTexture == "image_texture"

\* add_image for an image that is not tiled: the rectangle with the texture of the
\* image
add_image(builder, sort_key, rect, clip) ==
    LET regions == ClipRegions(rect, clip)
    IN  [builder EXCEPT !.render_items =
            @ \o [i \in 1..Len(regions) |->
                     [kind |-> "Draw", sort_key |-> sort_key,
                      color_texture_id |-> ImageTexture,
                      mask_texture_id |-> DummyMaskTexture,
                      primitive |-> "Rectangles", vertex_count |-> 4]]]

add_composite(builder, sort_key, draw_context, rect, texture_id, blend_mode) ==
    LET origin == transform_point(draw_context.final_transform, Point(rect.x, rect.y))
    IN  [builder EXCEPT !.render_items =
            Append(@, [kind |-> "Composite", sort_key |-> sort_key,
                       blend_mode |-> blend_mode,
                       rect |-> MkRect(Max(origin.x, 0), Max(origin.y, 0), rect.w, rect.h),
                       color_texture_id |-> texture_id])]

\* the match on display_item.item in compile
AddItem(builder, key, display_item, draw_context, clip_rect) ==
    CASE display_item.item = "Rectangle" ->
             add_rectangle(builder, key, display_item.rect, clip_rect)
      [] display_item.item = "Composite" ->
             add_composite(builder, key, draw_context, display_item.rect,
                           display_item.texture_id, display_item.blend_mode)
      [] display_item.item = "Image" ->
             add_image(builder, key, display_item.rect, clip_rect)
      [] display_item.item = "Text" ->
             add_text(builder, key, Len(display_item.glyphs))
      [] OTHER -> builder

get_item_and_draw_context(flat, key) ==
    [item |-> flat[key.draw_list_index + 1].draw_list[key.item_index + 1],
     draw_context |-> flat[key.draw_list_index + 1].draw_context]

\* an iterator that stops at the last src_item instead of after it: IteratorExact is
\* checked against it as well
DisplayItemIteratorShort(src_items) ==
    IF src_items = <<>>
    THEN [current_key |-> Key(0, 0), last_key |-> Key(0, 0)]
    ELSE [current_key |-> Head(src_items), last_key |-> Last(src_items)]

\* DisplayItemIterator::new
DisplayItemIterator(src_items) ==
    IF src_items = <<>>
    THEN [current_key |-> Key(0, 0), last_key |-> Key(0, 0)]
    ELSE [current_key |-> Head(src_items),
          last_key |-> Key(Last(src_items).draw_list_index, Last(src_items).item_index + 1)]

\* DisplayItemIterator::next: the iterator after yielding current_key
next(it, flat) ==
    LET key == it.current_key
        bumped == Key(key.draw_list_index, key.item_index + 1)
    IN  IF key.draw_list_index # it.last_key.draw_list_index
           /\ bumped.item_index = Len(flat[key.draw_list_index + 1].draw_list)
        THEN [it EXCEPT !.current_key = Key(key.draw_list_index + 1, 0)]
        ELSE [it EXCEPT !.current_key = bumped]

\* finalize the builder of one render target into the compiled node;
\* cs is [builders, batches, commands, next_batch_id]
FinalizeInto(cs, render_target) ==
    LET r == finalize(cs.builders[render_target], cs.next_batch_id)
    IN  [builders |-> [t \in (DOMAIN cs.builders) \ {render_target} |-> cs.builders[t]],
         batches |-> cs.batches \o r.batches,
         commands |-> cs.commands \o r.draw_commands,
         next_batch_id |-> r.next_batch_id]

\* a compiler that sees no interloper: PaintOrderOverlapping is checked against it
\* as well
NodesNeverOverlap(node_rects, node0, node1) == FALSE

NodesOverlap(node_rects, node0, node1) ==
    intersects(node_rects[node0 + 1], node_rects[node1 + 1])

\* the body of the loop of compile, for one key
CompileKey(cs, node, key, flat, node_rects) ==
    LET got == get_item_and_draw_context(flat, key)
        display_item == got.item
        draw_context == got.draw_context
        rt == draw_context.render_target_index
        clip_rect == intersection(display_item.clip, draw_context.overflow)
        builder == IF rt \in DOMAIN cs.builders THEN cs.builders[rt]
                   ELSE DrawCommandBuilder(rt)
        added == AddItem(builder, key, display_item, draw_context, Unwrap(clip_rect))
    IN  IF display_item.node_index = None THEN cs
        ELSE IF Unwrap(display_item.node_index) = node.node_index
        THEN IF clip_rect = None THEN cs
             ELSE [cs EXCEPT !.builders =
                      [t \in (DOMAIN cs.builders) \cup {rt} |->
                          IF t = rt THEN added ELSE cs.builders[t]]]
        ELSE IF NodesOverlap(node_rects, Unwrap(display_item.node_index), node.node_index)
                /\ rt \in DOMAIN cs.builders
        THEN FinalizeInto(cs, rt)
        ELSE cs

RECURSIVE CompileKeys(_, _, _, _, _)
CompileKeys(cs, node, it, flat, node_rects) ==
    IF it.current_key = it.last_key THEN cs
    ELSE CompileKeys(CompileKey(cs, node, it.current_key, flat, node_rects),
                     node, next(it, flat), flat, node_rects)

\* "for (_, builder) in draw_cmd_builders.into_iter()", lowest render target first
RECURSIVE FinalizeRemaining(_)
FinalizeRemaining(cs) ==
    IF DOMAIN cs.builders = {} THEN cs
    ELSE LET rt == CHOOSE t \in DOMAIN cs.builders : \A u \in DOMAIN cs.builders : t <= u
         IN  FinalizeRemaining(FinalizeInto(cs, rt))

\* AABBTreeNode::compile: returns [compiled_node, next_batch_id]
compile(node, flat, node_rects, batch_id) ==
    LET cs == FinalizeRemaining(
                  CompileKeys([builders |-> <<>>, batches |-> <<>>, commands |-> <<>>,
                               next_batch_id |-> batch_id],
                              node, DisplayItemIterator(node.src_items), flat, node_rects))
    IN  [compiled_node |-> [batches |-> cs.batches, commands |-> cs.commands,
                            matrix_maps |-> <<>>],
         next_batch_id |-> cs.next_batch_id]

----------------------------------------------------------------------------
(* Scene: reset and the stages of build_frame *)

RECURSIVE DestroyUpdates(_, _)
DestroyUpdates(tree, i) ==
    IF i > Len(tree) THEN <<>>
    ELSE (IF tree[i].compiled_node = None THEN <<>>
          ELSE [b \in 1..Len(Unwrap(tree[i].compiled_node).batches) |->
                   [id |-> Unwrap(tree[i].compiled_node).batches[b].batch_id,
                    op |-> "Destroy"]])
         \o DestroyUpdates(tree, i + 1)

\* a reset that frees nothing: TextureLifecycle is checked against it as well
FreeNoRenderTarget(tc, rts, i) == tc

RECURSIVE FreeRenderTargets(_, _, _)
FreeRenderTargets(tc, rts, i) ==
    IF i > Len(rts) THEN tc
    ELSE FreeRenderTargets(IF rts[i].texture_id = None THEN tc
                           ELSE free_render_target(tc, Unwrap(rts[i].texture_id)),
                           rts, i + 1)

\* Scene::reset: what it pushes on pending_updates and leaves of the texture cache;
\* it also clears pipeline_epoch_map and render_targets
reset(tree, rts, tc) ==
    [pending_updates |-> DestroyUpdates(tree, 1),
     texture_cache |-> FreeRenderTargets(tc, rts, 1)]

\* a scene that compiles every visible tile again: ScrollRetains is checked against
\* it as well
IsVisible(node) == node.is_visible

\* the nodes update_resource_lists and compile_visible_nodes work on
NeedsCompile(node) == node.is_visible /\ node.compiled_node = None

GlyphKey(font_id, size, blur_radius, index) ==
    [font_id |-> font_id, size |-> size, blur_radius |-> blur_radius, index |-> index]

\* BorderRadiusRasterOp::create: no op for a corner without an outer radius
BorderRadiusRasterOp(outer_radius, inner_radius) ==
    IF outer_radius > 0
    THEN Some([raster |-> "BorderRadius", a |-> outer_radius, b |-> inner_radius])
    ELSE None

\* BoxShadowCornerRasterOp::create: no op for a corner that is a plain square
BoxShadowCornerRasterOp(blur_radius, border_radius) ==
    IF blur_radius > 0 \/ border_radius > 0
    THEN Some([raster |-> "BoxShadowCorner", a |-> blur_radius, b |-> border_radius])
    ELSE None

\* BorderDisplayItem::top_left_inner_radius and the three like it
inner_radius(info) == Max(info.radius - info.width, 0)

\* the set of an Option
OptionSet(o) == {o[i] : i \in 1..Len(o)}

\* "if info.top.style == BorderStyle::Dotted { add_radius_raster(...) }" and the
\* three like it: a dot has the radius of half the side's width
DottedMasks(info) ==
    IF info.style = "Dotted"
    THEN OptionSet(BorderRadiusRasterOp(info.width \div 2, 0))
    ELSE {}

\* the arms of "match display_item.item" in build_resource_list
RequiredBy(display_item) ==
    CASE display_item.item = "Image" ->
             [images |-> {display_item.image_id}, glyphs |-> {}, rasters |-> {}]
      [] display_item.item = "Text" ->
             [images |-> {},
              glyphs |-> {GlyphKey(display_item.font_id, display_item.size,
                                   display_item.blur_radius, display_item.glyphs[g]) :
                             g \in 1..Len(display_item.glyphs)},
              rasters |-> {}]
      [] display_item.item = "BoxShadow" ->
             [images |-> {}, glyphs |-> {},
              rasters |-> OptionSet(BoxShadowCornerRasterOp(display_item.blur_radius,
                                                            display_item.border_radius))]
      [] display_item.item = "Border" ->
             [images |-> {}, glyphs |-> {},
              rasters |-> OptionSet(BorderRadiusRasterOp(display_item.radius,
                                                         inner_radius(display_item)))
                          \cup DottedMasks(display_item)]
      [] OTHER -> [images |-> {}, glyphs |-> {}, rasters |-> {}]

\* "for item_key in &self.src_items", from the i-th key on; the items of the
\* model have no complex clip region
RECURSIVE ResourcesFrom(_, _, _)
ResourcesFrom(node, flat, i) ==
    IF i > Len(node.src_items)
    THEN [images |-> {}, glyphs |-> {}, rasters |-> {}]
    ELSE LET one == RequiredBy(get_item_and_draw_context(flat, node.src_items[i]).item)
             rest == ResourcesFrom(node, flat, i + 1)
         IN  [images |-> one.images \cup rest.images,
              glyphs |-> one.glyphs \cup rest.glyphs,
              rasters |-> one.rasters \cup rest.rasters]

build_resource_list(node, flat) == ResourcesFrom(node, flat, 1)

\* an update_resource_lists that builds nothing: FrameAssembles is checked against
\* it as well
update_no_resource_list(tree, flat) == tree

update_resource_lists(tree, flat) ==
    [i \in 1..Len(tree) |->
        IF NeedsCompile(tree[i])
        THEN [tree[i] EXCEPT !.resource_list = Some(build_resource_list(tree[i], flat))]
        ELSE tree[i]]

----------------------------------------------------------------------------
(* Assets: the images, glyphs and masks a frame needs. The texture cache is kept
   as image_items, the ids it holds; asset_log is the list of the inserts made
   and of the raster jobs pushed, each with "held", whether the cache held the
   id before, and "render", the number of the build_frame that made it.
   ImageID::new() is the counter next_image_id. *)

\* the four maps and the cache as build_frame receives them
Assets ==
    [glyph_to_image_map |-> glyph_to_image_map,
     raster_to_image_map |-> raster_to_image_map,
     image_items |-> image_items, next_image_id |-> next_image_id,
     jobs |-> <<>>, log |-> <<>>, panic |-> FALSE,
     render |-> msg_count.root + msg_count.scroll + 1]

\* a scheduler that does not look at the map: OneShotAssets is checked against it
\* as well
AlwaysMissing(map, key) == TRUE

\* "!raster_to_image_map.contains_key(raster_item)", and the same of glyph keys
Missing(map, key) == key \notin DOMAIN map

MapInsert(map, key, value) ==
    [k \in (DOMAIN map) \cup {key} |-> IF k = key THEN value ELSE map[k]]

\* an image of the api as a key of asset_log and of compile_lookups
ImageKey(image_id) == [image_id |-> image_id]

\* one entry of asset_log
AssetOp(op, key, image_id, st) ==
    [op |-> op, key |-> key, image_id |-> image_id, held |-> image_id \in st.image_items,
     render |-> st.render]

\* resource_list.for_each_raster: a HashSet, visited in some order
RECURSIVE ForEachRaster(_, _)
ForEachRaster(st, rasters) ==
    IF rasters = {} THEN st
    ELSE LET raster_item == CHOOSE r \in rasters : TRUE
             image_id == st.next_image_id
         IN  ForEachRaster(
                 IF Missing(st.raster_to_image_map, raster_item)
                 THEN [st EXCEPT
                          !.next_image_id = @ + 1,
                          !.image_items = @ \cup {image_id},
                          !.log = Append(@, AssetOp("insert_raster_op", raster_item,
                                                    image_id, st)),
                          !.raster_to_image_map = MapInsert(@, raster_item, image_id)]
                 ELSE st,
                 rasters \ {raster_item})

\* resource_list.for_each_image; templates is image_templates
RECURSIVE ForEachImage(_, _, _)
ForEachImage(st, images, templates) ==
    IF images = {} THEN st
    ELSE LET image_id == CHOOSE i \in images : TRUE
         IN  IF image_id \in st.image_items
             THEN ForEachImage(st, images \ {image_id}, templates)
             ELSE IF image_id \notin templates
             THEN [st EXCEPT !.panic = TRUE]
             ELSE ForEachImage([st EXCEPT
                                   !.image_items = @ \cup {image_id},
                                   !.log = Append(@, AssetOp("insert", ImageKey(image_id),
                                                             image_id, st))],
                               images \ {image_id}, templates)

\* resource_list.for_each_glyph
RECURSIVE ForEachGlyph(_, _)
ForEachGlyph(st, glyphs) ==
    IF glyphs = {} THEN st
    ELSE LET glyph_key == CHOOSE g \in glyphs : TRUE
             image_id == st.next_image_id
         IN  ForEachGlyph(
                 IF Missing(st.glyph_to_image_map, glyph_key)
                 THEN [st EXCEPT
                          !.next_image_id = @ + 1,
                          !.jobs = Append(@, [image_id |-> image_id,
                                              glyph_key |-> glyph_key]),
                          !.log = Append(@, AssetOp("job", glyph_key, image_id, st)),
                          !.glyph_to_image_map = MapInsert(@, glyph_key, image_id)]
                 ELSE st,
                 glyphs \ {glyph_key})

\* "for node in &self.nodes { if node.is_visible { .. } }", from the i-th node on;
\* a visible node without a resource list stops the thread
RECURSIVE ScheduleNodes(_, _, _, _)
ScheduleNodes(st, tree, templates, i) ==
    IF i > Len(tree) \/ st.panic THEN st
    ELSE IF ~tree[i].is_visible THEN ScheduleNodes(st, tree, templates, i + 1)
    ELSE IF tree[i].resource_list = None THEN [st EXCEPT !.panic = TRUE]
    ELSE LET resource_list == Unwrap(tree[i].resource_list)
         IN  ScheduleNodes(
                 ForEachGlyph(
                     ForEachImage(ForEachRaster(st, resource_list.rasters),
                                  resource_list.images, templates),
                     resource_list.glyphs),
                 tree, templates, i + 1)

update_texture_cache_and_build_raster_jobs(st, tree, templates) ==
    ScheduleNodes(st, tree, templates, 1)

\* "for job in raster_jobs { texture_cache.insert(job.image_id, ..) }", from the
\* i-th job on
RECURSIVE InsertRastered(_, _)
InsertRastered(st, i) ==
    IF i > Len(st.jobs) THEN st
    ELSE InsertRastered([st EXCEPT
                          !.image_items = @ \cup {st.jobs[i].image_id},
                          !.log = Append(@, AssetOp("insert", st.jobs[i].glyph_key,
                                                    st.jobs[i].image_id, st))],
                      i + 1)

\* raster_glyphs: a job whose font was never added stops its worker at
\* "font_templates[&job.glyph_key.font_id]", and the scope with it; the font
\* context rasterizes every glyph of a font it was given
raster_glyphs(st, fonts) ==
    IF st.panic THEN st
    ELSE IF \E j \in 1..Len(st.jobs) : st.jobs[j].glyph_key.font_id \notin fonts
    THEN [st EXCEPT !.panic = TRUE]
    ELSE InsertRastered(st, 1)

\* the gap between neighbouring f32 values at a whole number x >= 0: 1 below
\* 2^24, where every whole number is an f32, and doubling with every power of two
RECURSIVE Ulp(_)
Ulp(x) == IF x < 16777216 THEN 1 ELSE 2 * Ulp(x \div 2)

\* the f32 nearest to the whole number x >= 0, ties to the even mantissa
F32(x) ==
    LET u == Ulp(x)
        q == x \div u
        r == x % u
    IN  IF 2 * r < u THEN q * u
        ELSE IF 2 * r > u THEN (q + 1) * u
        ELSE IF q % 2 = 0 THEN q * u
        ELSE (q + 1) * u

\* the height add_border gives the rectangle of the top edge:
\* "tr_outer.y + top.width - tl_outer.y", in f32
top_edge_height(rect, info) == F32(F32(rect.y + info.width) - rect.y)

\* the mask_radius of the dots of add_border_edge: half the height of the top
\* edge, and half the width of a vertical edge; the bottom edge has the height
\* "br_outer.y - bl_outer.y + bottom.width", which is the width. The widths of
\* the model are even
DotRadii(display_item) ==
    IF display_item.style = "Dotted"
    THEN {top_edge_height(display_item.rect, display_item) \div 2,
          display_item.width \div 2}
    ELSE {}

\* what compile asks the maps and the cache for when it adds the item:
\* texture_cache.get(image_id) of an image; glyph_to_image_map.get(..).unwrap() of
\* each glyph of a run; raster_to_image_map[..] of the four corners of a border and
\* of the dots of its dotted sides; and of the corners of a box shadow that is not
\* a plain rectangle
LooksUp(display_item) ==
    CASE display_item.item = "Image" ->
             {[kind |-> "image", key |-> ImageKey(display_item.image_id)]}
      [] display_item.item = "Text" ->
             {[kind |-> "glyph",
               key |-> GlyphKey(display_item.font_id, display_item.size,
                                display_item.blur_radius, display_item.glyphs[g])] :
                 g \in 1..Len(display_item.glyphs)}
      [] display_item.item = "Border" ->
             {[kind |-> "raster", key |-> r] :
                 r \in OptionSet(BorderRadiusRasterOp(display_item.radius,
                                                      inner_radius(display_item)))
                       \cup UNION {OptionSet(BorderRadiusRasterOp(mask_radius, 0)) :
                                     mask_radius \in DotRadii(display_item)}}
      [] display_item.item = "BoxShadow" ->
             IF display_item.blur_radius = 0 /\ display_item.spread_radius = 0
                /\ display_item.clip_mode = "None"
             THEN {}
             ELSE {[kind |-> "raster", key |-> r] :
                      r \in OptionSet(BoxShadowCornerRasterOp(display_item.blur_radius,
                                                              display_item.border_radius))}
      [] OTHER -> {}

\* whether the lookup finds its image
Finds(st, lookup) ==
    CASE lookup.kind = "image" -> lookup.key.image_id \in st.image_items
      [] lookup.kind = "glyph" ->
             /\ lookup.key \in DOMAIN st.glyph_to_image_map
             /\ st.glyph_to_image_map[lookup.key] \in st.image_items
      [] lookup.kind = "raster" ->
             /\ lookup.key \in DOMAIN st.raster_to_image_map
             /\ st.raster_to_image_map[lookup.key] \in st.image_items

\* the items compile adds for a node: its own, where their clip meets the overflow
CompiledItems(node, flat) ==
    {got.item : got \in {g \in {get_item_and_draw_context(flat, node.src_items[k]) :
                                     k \in 1..Len(node.src_items)} :
                            /\ g.item.node_index = Some(node.node_index)
                            /\ intersection(g.item.clip, g.draw_context.overflow) # None}}

\* the lookups of the nodes compile_visible_nodes compiles, each with the node and
\* with whether it finds its image in the state the scheduler left
LookupsOf(st, tree, flat) ==
    UNION {{[node |-> tree[i].node_index, kind |-> l.kind, key |-> l.key,
             present |-> Finds(st, l)] :
               l \in UNION {LooksUp(item) : item \in CompiledItems(tree[i], flat)}} :
           i \in {n \in 1..Len(tree) : NeedsCompile(tree[n])}}

\* build_frame from update_texture_cache_and_build_raster_jobs to the start of
\* compile_visible_nodes; tree is what cull and update_resource_lists left
Prepared(tree, flat) ==
    LET st == raster_glyphs(
                  update_texture_cache_and_build_raster_jobs(Assets, tree,
                                                             image_templates),
                  font_templates)
    IN  [st |-> st, lookups |-> IF st.panic THEN {} ELSE LookupsOf(st, tree, flat)]

node_rects(tree) == [i \in 1..Len(tree) |-> tree[i].rect]

\* the pool compiles the tiles in parallel; batch ids are drawn here in node order.
\* st is [tree, next_batch_id]
RECURSIVE CompileNodes(_, _, _)
CompileNodes(st, flat, i) ==
    IF i > Len(st.tree) THEN st
    ELSE IF NeedsCompile(st.tree[i])
    THEN LET r == compile(st.tree[i], flat, node_rects(st.tree), st.next_batch_id)
         IN  CompileNodes([tree |-> [st.tree EXCEPT
                                        ![i].compiled_node = Some(r.compiled_node)],
                           next_batch_id |-> r.next_batch_id],
                          flat, i + 1)
    ELSE CompileNodes(st, flat, i + 1)

compile_visible_nodes(tree, flat, batch_id) ==
    CompileNodes([tree |-> tree, next_batch_id |-> batch_id], flat, 1)

\* The jobs of the scope run in any interleaving, each drawing an id at every
\* batch it opens. A schedule f tells, for each id drawn in the scope in turn,
\* the node whose job drew it; these are the ids of node i, in the order drawn
IdsOf(f, i, batch_id) ==
    LET ps == {p \in DOMAIN f : f[p] = i}
    IN  [k \in 1..Cardinality(ps) |->
            batch_id - 1 + (CHOOSE p \in ps : Cardinality({q \in ps : q < p}) = k - 1)]

\* what compile leaves when its n-th BatchId::new() returns ids[n]; compiled_node
\* is what it leaves when the ids are 0, 1, 2, ..
WithIds(compiled_node, ids) ==
    [batches |-> [b \in 1..Len(compiled_node.batches) |->
                     [compiled_node.batches[b] EXCEPT !.batch_id = ids[@ + 1]]],
     commands |-> [c \in 1..Len(compiled_node.commands) |->
                      IF compiled_node.commands[c].info.kind = "Batch"
                      THEN [compiled_node.commands[c] EXCEPT !.info.batch_id = ids[@ + 1]]
                      ELSE compiled_node.commands[c]],
     matrix_maps |-> compiled_node.matrix_maps]

\* the number of batches the job of each node that needs compiling opens
BatchCounts(tree, flat) ==
    [i \in {n \in 1..Len(tree) : NeedsCompile(tree[n])} |->
        Len(compile(tree[i], flat, node_rects(tree), 0).compiled_node.batches)]

RECURSIVE IdsDrawn(_, _)
IdsDrawn(count, tiles) ==
    IF tiles = {} THEN 0
    ELSE LET i == CHOOSE n \in tiles : TRUE
         IN  count[i] + IdsDrawn(count, tiles \ {i})

\* every interleaving of the jobs: each node draws as many ids as its job opens
\* batches
Schedules(count) ==
    {f \in [1..IdsDrawn(count, DOMAIN count) -> DOMAIN count] :
        \A i \in DOMAIN count : Cardinality({p \in DOMAIN f : f[p] = i}) = count[i]}

\* compile_visible_nodes when the jobs of the scope run under schedule f
compile_visible_nodes_scheduled(tree, flat, batch_id, f) ==
    [tree |-> [i \in 1..Len(tree) |->
                  IF NeedsCompile(tree[i])
                  THEN [tree[i] EXCEPT !.compiled_node =
                           Some(WithIds(compile(tree[i], flat, node_rects(tree),
                                                0).compiled_node,
                                        IdsOf(f, i, batch_id)))]
                  ELSE tree[i]],
     next_batch_id |-> batch_id + Len(f)]

CreateUpdate(batch) ==
    [id |-> batch.batch_id, op |-> "Create",
     vertices |-> batch.vertices, indices |-> batch.indices,
     program_id |-> batch.program_id,
     color_texture_id |-> batch.color_texture_id,
     mask_texture_id |-> batch.mask_texture_id]

\* a visible node's batches are drained into Create updates
DrainBatches(compiled_node) ==
    LET ids == {compiled_node.batches[b].batch_id : b \in 1..Len(compiled_node.batches)}
        of(id) == CHOOSE b \in 1..Len(compiled_node.batches) :
                      compiled_node.batches[b].batch_id = id
    IN  [compiled_node EXCEPT
            !.batches = <<>>,
            !.matrix_maps = [id \in (DOMAIN compiled_node.matrix_maps) \cup ids |->
                                IF id \in ids THEN compiled_node.batches[of(id)].matrix_map
                                ELSE compiled_node.matrix_maps[id]]]

\* an update_batch_cache that pushes no Create: KnownBatches is checked against it
\* as well
NoBatchCacheUpdates(tree, i) == <<>>

\* returns [tree, pending_updates]; a visible node with no compiled node is a panic
RECURSIVE BatchCacheUpdates(_, _)
BatchCacheUpdates(tree, i) ==
    IF i > Len(tree) THEN <<>>
    ELSE (IF tree[i].is_visible
          THEN [b \in 1..Len(Unwrap(tree[i].compiled_node).batches) |->
                   CreateUpdate(Unwrap(tree[i].compiled_node).batches[b])]
          ELSE <<>>) \o BatchCacheUpdates(tree, i + 1)

\* an update_batch_cache that reads the batches of a visible tile and leaves them in
\* place (iter for drain): CreateOnce is checked against it as well
update_batch_cache_keeping(tree) ==
    [tree |-> [i \in 1..Len(tree) |->
                  IF tree[i].is_visible
                  THEN [tree[i] EXCEPT
                           !.compiled_node =
                               Some([DrainBatches(Unwrap(@)) EXCEPT
                                        !.batches = Unwrap(tree[i].compiled_node).batches])]
                  ELSE tree[i]],
     pending_updates |-> BatchCacheUpdates(tree, 1)]

\* an update_batch_cache whose Destroy loop, the one of reset, runs after its Create
\* loop: DestroysFirst is checked against it as well
update_batch_cache_destroying(tree) ==
    [tree |-> [i \in 1..Len(tree) |->
                  IF tree[i].is_visible
                  THEN [tree[i] EXCEPT !.compiled_node = Some(DrainBatches(Unwrap(@)))]
                  ELSE tree[i]],
     pending_updates |-> BatchCacheUpdates(tree, 1) \o DestroyUpdates(tree, 1)]

update_batch_cache(tree) ==
    [tree |-> [i \in 1..Len(tree) |->
                  IF tree[i].is_visible
                  THEN [tree[i] EXCEPT !.compiled_node = Some(DrainBatches(Unwrap(@)))]
                  ELSE tree[i]],
     pending_updates |-> BatchCacheUpdates(tree, 1)]

\* a palette of the transforms as flattened, whatever the scroll offset:
\* UniformsFollowFrame is checked against it as well
MatrixPaletteUnscrolled(matrix_map, flat, offset) ==
    [slot \in 0..(Cardinality(DOMAIN matrix_map) - 1) |->
        IF \E d \in DOMAIN matrix_map : matrix_map[d] = slot
        THEN LET d == CHOOSE d \in DOMAIN matrix_map : matrix_map[d] = slot
             IN  flat[d + 1].draw_context.final_transform
        ELSE identity]

\* the palette of one batch: slot -> final_transform translated by the scroll offset
MatrixPalette(matrix_map, flat, offset) ==
    [slot \in 0..(Cardinality(DOMAIN matrix_map) - 1) |->
        IF \E d \in DOMAIN matrix_map : matrix_map[d] = slot
        THEN LET d == CHOOSE d \in DOMAIN matrix_map : matrix_map[d] = slot
             IN  translate(flat[d + 1].draw_context.final_transform, offset.x, offset.y)
        ELSE identity]

\* the HashMap of a node's matrix maps is walked in batch-id order
RECURSIVE UniformUpdatesOf(_, _, _, _)
UniformUpdatesOf(matrix_maps, ids, flat, offset) ==
    IF ids = {} THEN <<>>
    ELSE LET id == CHOOSE x \in ids : \A y \in ids : x <= y
         IN  <<[id |-> id, op |-> "UpdateUniforms",
                matrix_palette |-> MatrixPalette(matrix_maps[id], flat, offset)]>>
             \o UniformUpdatesOf(matrix_maps, ids \ {id}, flat, offset)

RECURSIVE UniformUpdates(_, _, _, _)
UniformUpdates(tree, i, flat, offset) ==
    IF i > Len(tree) THEN <<>>
    ELSE (IF tree[i].is_visible
          THEN UniformUpdatesOf(Unwrap(tree[i].compiled_node).matrix_maps,
                                DOMAIN Unwrap(tree[i].compiled_node).matrix_maps,
                                flat, offset)
          ELSE <<>>) \o UniformUpdates(tree, i + 1, flat, offset)

\* a collection from every compiled node, in view or not: FrameAssembly is checked
\* against it as well
RECURSIVE CompiledCommands(_, _, _)
CompiledCommands(tree, i, render_target) ==
    IF i > Len(tree) THEN <<>>
    ELSE (IF tree[i].compiled_node # None
          THEN SelectSeq(Unwrap(tree[i].compiled_node).commands,
                         LAMBDA c : c.render_target = render_target)
          ELSE <<>>) \o CompiledCommands(tree, i + 1, render_target)

RECURSIVE VisibleCommands(_, _, _)
VisibleCommands(tree, i, render_target) ==
    IF i > Len(tree) THEN <<>>
    ELSE (IF tree[i].is_visible
          THEN SelectSeq(Unwrap(tree[i].compiled_node).commands,
                         LAMBDA c : c.render_target = render_target)
          ELSE <<>>) \o VisibleCommands(tree, i + 1, render_target)

\* a comparison by the ids of the batches: ScheduleFree is checked against it as
\* well
CommandLessByBatch(a, b) ==
    (IF a.info.kind = "Batch" THEN a.info.batch_id ELSE 0)
        < (IF b.info.kind = "Batch" THEN b.info.batch_id ELSE 0)

\* the comparison closure of layer.commands.sort_by
CommandLess(a, b) == KeyLess(a.sort_key, b.sort_key)

\* sort_by is a stable sort
RECURSIVE InsertSorted(_, _)
InsertSorted(sorted, c) ==
    IF sorted = <<>> THEN <<c>>
    ELSE IF CommandLess(c, Last(sorted))
    THEN Append(InsertSorted(SubSeq(sorted, 1, Len(sorted) - 1), c), Last(sorted))
    ELSE Append(sorted, c)

RECURSIVE SortCommands(_, _)
SortCommands(commands, n) ==
    IF n = 0 THEN <<>>
    ELSE InsertSorted(SortCommands(commands, n - 1), commands[n])

RECURSIVE Layers(_, _, _)
Layers(tree, rts, i) ==
    IF i > Len(rts) THEN <<>>
    ELSE LET commands == VisibleCommands(tree, 1, i - 1)
         IN  (IF Len(commands) > 0
              THEN <<[texture_id |-> rts[i].texture_id, size |-> rts[i].size,
                      commands |-> SortCommands(commands, Len(commands))]>>
              ELSE <<>>) \o Layers(tree, rts, i + 1)

\* returns [frame, pending_updates]
collect_and_sort_visible_batches(tree, flat, rts, offset, epochs) ==
    [frame |-> [pipeline_epoch_map |-> epochs, layers |-> Layers(tree, rts, 1)],
     pending_updates |-> UniformUpdates(tree, 1, flat, offset)]

\* a scroll that does not clamp: ScrollComposes is checked against it as well
scroll_unclamped(offset, delta) ==
    Point(offset.x + delta.x, offset.y + delta.y)

\* Scene::scroll
scroll(offset, delta) ==
    Point(Min(offset.x + delta.x, 0), Min(offset.y + delta.y, 0))

----------------------------------------------------------------------------
(* RenderBackend *)

ROOT_PIPELINE_ID == 0

Viewport == MkRect(0, 0, 800, 600)

DevicePixelRatio == 1

\* Scene::build_frame: returns [tree, next_batch_id, pending_updates, frame]
\* what build_frame leaves: cached is what update_batch_cache returned, collected
\* what collect_and_sort_visible_batches returned
FrameOf(cached, collected, batch_id) ==
    [tree |-> cached.tree,
     next_batch_id |-> batch_id,
     pending_updates |-> cached.pending_updates \o collected.pending_updates,
     frame |-> collected.frame]

CollectFrame(cached, batch_id, flat, rts, offset, epochs) ==
    FrameOf(cached,
            collect_and_sort_visible_batches(cached.tree, flat, rts, offset, epochs),
            batch_id)

\* compiled is what compile_visible_nodes returned
CacheFrame(compiled, flat, rts, offset, epochs) ==
    CollectFrame(update_batch_cache(compiled.tree), compiled.next_batch_id,
                 flat, rts, offset, epochs)

build_frame(tree, flat, rts, offset, epochs, batch_id) ==
    CacheFrame(compile_visible_nodes(
                   update_resource_lists(
                       cull(tree, translate_rect(Viewport, Point(-offset.x, -offset.y))),
                       flat),
                   flat, batch_id),
               flat, rts, offset, epochs)

\* build_frame when the compile jobs run under schedule f; culled is the tree
\* after cull and update_resource_lists
ScheduledFrame(culled, flat, rts, offset, epochs, batch_id, f) ==
    CacheFrame(compile_visible_nodes_scheduled(culled, flat, batch_id, f),
               flat, rts, offset, epochs)

Culled(tree, flat, offset) ==
    update_resource_lists(cull(tree, translate_rect(Viewport, Point(-offset.x, -offset.y))),
                          flat)

\* RenderBackend::render: the result messages, in the order sent
ResultMsgs(texture_updates, batch_updates, frame) ==
    (IF Len(texture_updates) > 0
     THEN <<[msg |-> "UpdateTextureCache", updates |-> texture_updates]>> ELSE <<>>)
    \o (IF Len(batch_updates) > 0
        THEN <<[msg |-> "UpdateBatches", updates |-> batch_updates]>> ELSE <<>>)
    \o <<[msg |-> "NewFrame", frame |-> frame], [msg |-> "new_frame_ready"]>>

LogOf(batch_updates) ==
    SelectSeq(batch_updates, LAMBDA u : u.op # "UpdateUniforms")

\* RenderBackend::add_draw_list, for the six slots of a builder in order;
\* st is [dlm, next, ids]
RECURSIVE AddSlots(_, _, _)
AddSlots(st, slots, i) ==
    IF i > Len(slots) THEN st
    ELSE AddSlots(IF Len(slots[i]) > 0
                  THEN [dlm |-> [d \in (DOMAIN st.dlm) \cup {st.next} |->
                                    IF d = st.next THEN slots[i] ELSE st.dlm[d]],
                        next |-> st.next + 1,
                        ids |-> Append(st.ids, Some(st.next))]
                  ELSE [st EXCEPT !.ids = Append(@, None)],
                  slots, i + 1)

DisplayListOf(m, ids) ==
    [mode |-> m.mode, pipeline_id |-> m.pipeline_id, epoch |-> m.epoch,
     background_and_borders_id |-> ids[1],
     block_backgrounds_and_borders_id |-> ids[2],
     floats_id |-> ids[3],
     content_id |-> ids[4],
     positioned_content_id |-> ids[5],
     outlines_id |-> ids[6]]

SlotsOf(m) ==
    <<m.background_and_borders, m.block_backgrounds_and_borders, m.floats,
      m.content, m.positioned_content, m.outlines>>

DrawListIds(display_list) ==
    LET all == display_list.background_and_borders_id
               \o display_list.block_backgrounds_and_borders_id
               \o display_list.floats_id \o display_list.content_id
               \o display_list.positioned_content_id \o display_list.outlines_id
    IN  {all[i] : i \in 1..Len(all)}

\* "Return all current draw lists to the hash"
ReturnDrawLists(dlm, flat) ==
    LET returned == {i \in 1..Len(flat) : flat[i].id # None}
        ids == {Unwrap(flat[i].id) : i \in returned}
    IN  [d \in (DOMAIN dlm) \cup ids |->
            IF d \in ids
            THEN flat[CHOOSE i \in returned : flat[i].id = Some(d)].draw_list
            ELSE dlm[d]]

\* a filter that forgets the pipeline: Eviction is checked against it as well
OldKeysOfAnyPipeline(dls, pipeline_id, epoch) ==
    {k \in DOMAIN dls : dls[k].epoch < epoch}

\* "Remove any old draw lists and display lists for this pipeline"
OldDisplayListKeys(dls, pipeline_id, epoch) ==
    {k \in DOMAIN dls : dls[k].pipeline_id = pipeline_id /\ dls[k].epoch < epoch}

\* RenderBackend::build_scene on the maps given; returns the flatten state together
\* with the tree and what reset pushed, or built = FALSE when there is no root
\* what build_scene leaves: r is what reset returned, fs the flatten state and
\* built what build_aabb_tree returned
SceneOf(r, fs, built) ==
    [built |-> TRUE, panic |-> built.panic,
     pending_updates |-> r.pending_updates,
     fs |-> pop_render_target(fs), tree |-> built.tree, flat |-> built.flat]

BuildTree(r, fs, scene_rect) ==
    IF fs.panic THEN [built |-> FALSE, panic |-> TRUE]
    ELSE SceneOf(r, fs, build_aabb_tree(fs.flat, scene_rect))

\* the state flatten_stacking_context starts from: the first render target pushed
FlattenStart(dlm, tc) ==
    push_render_target(
        [flat |-> <<>>, rts |-> <<>>, stack |-> <<>>, dlm |-> dlm,
         epochs |-> <<>>, tc |-> tc, panic |-> FALSE],
        [width |-> Viewport.w, height |-> Viewport.h], None)

FlattenRoot(r, dlm, dls, scs) ==
    BuildTree(r,
              flatten_stacking_context(
                  FlattenStart(dlm, r.texture_cache), TRUE, scs[ROOT_PIPELINE_ID], identity,
                  [display_list_map |-> dls, stacking_contexts |-> scs,
                   device_pixel_ratio |-> DevicePixelRatio]),
              scs[ROOT_PIPELINE_ID].stacking_context.overflow)

build_scene(dlm, dls, scs, tree, rts, tc) ==
    IF ROOT_PIPELINE_ID \notin DOMAIN scs THEN [built |-> FALSE, panic |-> FALSE]
    ELSE FlattenRoot(reset(tree, rts, tc), dlm, dls, scs)

----------------------------------------------------------------------------
(* The messages the layout engine sends: the inputs of the model *)

StackingContext(bounds, overflow, mix_blend_mode, z_index, children, display_lists) ==
    [bounds |-> bounds, overflow |-> overflow, mix_blend_mode |-> mix_blend_mode,
     z_index |-> z_index, children |-> children, display_lists |-> display_lists]

Builder(id, epoch, background_and_borders, content, outlines) ==
    [id |-> id, pipeline_id |-> ROOT_PIPELINE_ID, epoch |-> epoch, mode |-> "Default",
     background_and_borders |-> background_and_borders,
     block_backgrounds_and_borders |-> <<>>, floats |-> <<>>,
     content |-> content, positioned_content |-> <<>>, outlines |-> outlines]

SceneRect == MkRect(0, 0, 2048, 512)

\* a page: a rectangle across the first split; rectangles of the two leftmost tiles
\* and of their parent in interleaved paint order; and, right of the viewport, a
\* rectangle inside the scene, one across its edge and one outside it
PageItems(epoch) ==
    Builder(epoch * 10 + 1, epoch,
            <<RectangleItem(MkRect(500, 0, 100, 100))>>,
            <<RectangleItem(MkRect(0, 0, 100, 100)),
              RectangleItem(MkRect(600, 0, 100, 100)),
              RectangleItem(MkRect(50, 50, 100, 100)),
              RectangleItem(MkRect(500, 50, 100, 100)),
              RectangleItem(MkRect(60, 60, 100, 100))>>,
            <<RectangleItem(MkRect(1100, 0, 100, 100)),
              RectangleItem(MkRect(2000, 450, 100, 100)),
              RectangleItem(MkRect(2100, 0, 50, 50))>>)

\* the content of a box
BoxItems(epoch) ==
    Builder(epoch * 10 + 2, epoch, <<>>,
            <<RectangleItem(MkRect(0, 0, 100, 100)),
              RectangleItem(MkRect(20, 20, 50, 50))>>, <<>>)

\* the content of the document of an iframe: a display list of pipeline 1
FrameItems(epoch) ==
    [Builder(epoch * 10 + 3, epoch, <<>>,
             <<RectangleItem(MkRect(0, 0, 100, 100))>>, <<>>)
        EXCEPT !.pipeline_id = 1]

DisplayListMsgs ==
    UNION {{PageItems(e), BoxItems(e), FrameItems(e)} : e \in 1..MaxSetRoot}

Box(x, mix_blend_mode, children, display_lists) ==
    StackingContext(MkRect(x, 200, 100, 100), MkRect(0, 0, 100, 100),
                    mix_blend_mode, 0, children, display_lists)

Root(epoch, alpha, children, display_lists) ==
    [stacking_context |-> StackingContext(SceneRect, SceneRect, "Normal", 0,
                                          children, display_lists),
     background_color |-> [a |-> alpha], epoch |-> epoch,
     pipeline_id |-> ROOT_PIPELINE_ID]

\* for each epoch: a page alone; a page with a background colour and a Multiply box
\* in the viewport; a page with a Screen box right of the viewport whose content is
\* in a Normal box inside it; and the root of the document of an iframe (pipeline 1)
RootMsgs ==
    UNION {{Root(e, 0, <<>>, <<e * 10 + 1>>),
            Root(e, 1, <<Box(200, "Multiply", <<>>, <<e * 10 + 2>>)>>, <<e * 10 + 1>>),
            Root(e, 0, <<Box(1100, "Screen",
                             <<Box(10, "Normal", <<>>, <<e * 10 + 2>>)>>, <<>>)>>,
                 <<e * 10 + 1>>)}
           : e \in 1..MaxSetRoot}
    \cup {[Root(e, 0, <<>>, <<e * 10 + 3>>) EXCEPT !.pipeline_id = 1] : e \in 1..MaxSetRoot}

ScrollStep == Point(512, 256)

Deltas == {Point(-ScrollStep.x, 0), Point(ScrollStep.x, 0), Point(0, -ScrollStep.y)}

----------------------------------------------------------------------------
(* The coordinator: RenderBackend::run, one message per step *)

BackendInit ==
    /\ display_list_map = <<>>
    /\ draw_list_map = <<>>
    /\ stacking_contexts = <<>>
    /\ texture_cache = [next |-> 1, allocated |-> {}, freed |-> <<>>,
                        pending_updates |-> <<>>]
    /\ pipeline_epoch_map = <<>>
    /\ nodes = <<>>
    /\ flat_draw_lists = <<>>
    /\ scroll_offset = Point(0, 0)
    /\ render_targets = <<>>
    /\ next_batch_id = 1
    /\ next_draw_list_id = 1
    /\ result_msgs = <<>>
    /\ batch_log = <<>>
    /\ reset_at = 0
    /\ last_frame = None
    /\ msg_count = [add |-> 0, root |-> 0, scroll |-> 0]
    /\ scroll_hist = <<>>
    /\ panicked = FALSE

\* channel() at the creation of the api: nothing sent, the Sender alive
ChannelInit ==
    /\ api_rx = <<>>
    /\ api_tx_open = TRUE
    /\ run_returned = FALSE
    /\ api_sent = <<>>
    /\ api_handled = <<>>

\* "scoped_threadpool::Pool::new(8)"
THREAD_COUNT == 8

Workers == 1..THREAD_COUNT

\* the pool once RenderBackend::new has returned, in a process that made no
\* backend before: every thread idle, with the font context its task made
PoolReady ==
    /\ font_context_count = THREAD_COUNT
    /\ workers = [w \in Workers |-> [job |-> None, font_contexts |-> 1, init_tasks |-> 1]]
    /\ pool_queue = <<>>
    /\ coordinator = [pc |-> "idle", submitted |-> 0, frames |-> 0, frame |-> None]
    /\ raster_jobs = <<>>
    /\ cache_writes = <<>>

\* RenderBackend::new: the four maps are empty; the texture cache holds the white
\* image and the dummy mask, which are not counted here
AssetsInit ==
    /\ font_templates = {}
    /\ image_templates = {}
    /\ glyph_to_image_map = <<>>
    /\ raster_to_image_map = <<>>
    /\ image_items = {}
    /\ next_image_id = 1
    /\ asset_log = <<>>
    /\ compile_lookups = {}

Init == BackendInit /\ fin = None /\ ChannelInit /\ PoolReady /\ AssetsInit

\* RenderBackend::render and the bookkeeping of what was sent
\* f is what build_frame returned; pending is what reset left on pending_updates
Rendered(f, tc, pending) ==
    /\ nodes' = f.tree
    /\ next_batch_id' = f.next_batch_id
    /\ texture_cache' = [tc EXCEPT !.pending_updates = <<>>]
    /\ result_msgs' = ResultMsgs(tc.pending_updates, pending \o f.pending_updates, f.frame)
    /\ batch_log' = batch_log \o LogOf(pending \o f.pending_updates)
    /\ last_frame' = Some(f.frame)

Render(tree, flat, rts, offset, epochs, tc, pending) ==
    Rendered(build_frame(tree, flat, rts, offset, epochs, next_batch_id), tc, pending)

AddDisplayList(m) ==
    /\ ~panicked
    /\ msg_count.add < MaxAddDisplayList
    /\ LET r == AddSlots([dlm |-> draw_list_map, next |-> next_draw_list_id, ids |-> <<>>],
                         SlotsOf(m), 1)
       IN  /\ draw_list_map' = r.dlm
           /\ next_draw_list_id' = r.next
           /\ display_list_map' =
                  [k \in (DOMAIN display_list_map) \cup {m.id} |->
                      IF k = m.id THEN DisplayListOf(m, r.ids) ELSE display_list_map[k]]
    /\ msg_count' = [msg_count EXCEPT !.add = @ + 1]
    /\ scroll_hist' = <<>>
    /\ result_msgs' = <<>>
    /\ UNCHANGED <<stacking_contexts, texture_cache, scene_vars, next_batch_id,
                   batch_log, reset_at, last_frame, panicked, fin, pool_vars>>

\* the draw lists of the display lists SetRootStackingContext removes as old
OldDrawListIds(m) ==
    UNION {DrawListIds(display_list_map[k]) :
              k \in OldDisplayListKeys(display_list_map, m.pipeline_id, m.epoch)}

\* display_list_map and draw_list_map once the old lists are removed
KeptDisplayLists(m) ==
    [k \in (DOMAIN display_list_map)
               \ OldDisplayListKeys(display_list_map, m.pipeline_id, m.epoch) |->
        display_list_map[k]]

KeptDrawLists(m) ==
    [d \in (DOMAIN ReturnDrawLists(draw_list_map, flat_draw_lists)) \ OldDrawListIds(m) |->
        ReturnDrawLists(draw_list_map, flat_draw_lists)[d]]

\* "self.stacking_contexts.insert(pipeline_id, RootStackingContext {..})"
WithRoot(m) ==
    [p \in (DOMAIN stacking_contexts) \cup {m.pipeline_id} |->
        IF p = m.pipeline_id THEN m ELSE stacking_contexts[p]]

\* the state after build_scene returned b and render ran; removed tells whether
\* every remove_draw_list found its list; dls, dlm and scs are the three maps of
\* the backend before build_scene
SceneSet(removed, dls, dlm, scs, b) ==
    IF ~removed \/ b.panic
    THEN /\ panicked' = TRUE
         /\ result_msgs' = <<>>
         /\ UNCHANGED <<backend_vars, scene_vars, id_vars,
                        batch_log, reset_at, last_frame>>
    ELSE /\ panicked' = FALSE
         /\ display_list_map' = dls
         /\ stacking_contexts' = scs
         /\ IF b.built
            THEN /\ draw_list_map' = b.fs.dlm
                 /\ flat_draw_lists' = b.flat
                 /\ render_targets' = b.fs.rts
                 /\ pipeline_epoch_map' = b.fs.epochs
                 /\ reset_at' = Len(batch_log) + Len(LogOf(b.pending_updates))
                 /\ Render(b.tree, b.flat, b.fs.rts, scroll_offset, b.fs.epochs,
                           b.fs.tc, b.pending_updates)
            ELSE /\ draw_list_map' = dlm
                 /\ flat_draw_lists' = <<>>
                 /\ UNCHANGED <<render_targets, pipeline_epoch_map, reset_at>>
                 /\ Render(nodes, <<>>, render_targets, scroll_offset,
                           pipeline_epoch_map, texture_cache, <<>>)

SetRootStackingContext(m) ==
    /\ ~panicked
    /\ msg_count.root < MaxSetRoot
    /\ msg_count' = [msg_count EXCEPT !.root = @ + 1]
    /\ scroll_hist' = <<>>
    /\ SceneSet(OldDrawListIds(m) \subseteq DOMAIN ReturnDrawLists(draw_list_map,
                                                                   flat_draw_lists),
                KeptDisplayLists(m), KeptDrawLists(m), WithRoot(m),
                build_scene(KeptDrawLists(m), KeptDisplayLists(m), WithRoot(m),
                            nodes, render_targets, texture_cache))
    /\ UNCHANGED <<scroll_offset, next_draw_list_id, fin, pool_vars>>

Scroll(delta) ==
    /\ ~panicked
    /\ msg_count.scroll < MaxScroll
    /\ msg_count' = [msg_count EXCEPT !.scroll = @ + 1]
    /\ scroll_hist' = Append(scroll_hist, [from |-> scroll_offset, delta |-> delta])
    /\ scroll_offset' = scroll(scroll_offset, delta)
    /\ Render(nodes, flat_draw_lists, render_targets, scroll_offset',
              pipeline_epoch_map, texture_cache, <<>>)
    /\ UNCHANGED <<display_list_map, draw_list_map, stacking_contexts,
                   pipeline_epoch_map, flat_draw_lists, render_targets,
                   next_draw_list_id, reset_at, panicked, fin, pool_vars>>

Next ==
    \/ \E m \in DisplayListMsgs : AddDisplayList(m) /\ UNCHANGED <<channel_vars, asset_vars>>
    \/ \E m \in RootMsgs : SetRootStackingContext(m) /\ UNCHANGED <<channel_vars, asset_vars>>
    \/ \E delta \in Deltas : Scroll(delta) /\ UNCHANGED <<channel_vars, asset_vars>>

Spec == Init /\ [][Next]_vars

----------------------------------------------------------------------------
(* RenderBackend::run on its channel: the api sends and hangs up while run
   receives, one message per iteration of the loop. *)

ApiMsg(kind, body) == [kind |-> kind, body |-> body]

\* what the api sends: the display list of a page, the root that lists it, a scroll
ApiMsgs ==
    {ApiMsg("AddDisplayList", PageItems(1)),
     ApiMsg("SetRootStackingContext", Root(1, 0, <<>>, <<11>>)),
     ApiMsg("Scroll", Point(ScrollStep.x, 0))}

\* the messages of a kind among msgs
OfKind(msgs, kind) == SelectSeq(msgs, LAMBDA m : m.kind = kind)

\* the handlers take no more messages of a kind than this
MaxOfKind(kind) ==
    CASE kind = "AddDisplayList" -> MaxAddDisplayList
      [] kind = "SetRootStackingContext" -> MaxSetRoot
      [] kind = "Scroll" -> MaxScroll

\* Sender::send from the api
ApiSend(msg) ==
    /\ api_tx_open
    /\ Len(OfKind(api_sent, msg.kind)) < MaxOfKind(msg.kind)
    /\ api_rx' = Append(api_rx, msg)
    /\ api_sent' = Append(api_sent, msg)
    /\ UNCHANGED <<backend_vars, scene_vars, id_vars, egress_vars, ingress_vars, fin,
                   api_tx_open, run_returned, api_handled, pool_vars, asset_vars>>

\* the last Sender is dropped
ApiDrop ==
    /\ api_tx_open
    /\ api_tx_open' = FALSE
    /\ UNCHANGED <<backend_vars, scene_vars, id_vars, egress_vars, ingress_vars, fin,
                   api_rx, run_returned, api_sent, api_handled, pool_vars, asset_vars>>

\* "match msg": the arm of the message
Handle(msg) ==
    \/ msg.kind = "AddDisplayList" /\ AddDisplayList(msg.body)
    \/ msg.kind = "SetRootStackingContext" /\ SetRootStackingContext(msg.body)
    \/ msg.kind = "Scroll" /\ Scroll(msg.body)

\* one iteration of the loop with "Ok(msg)": recv takes the oldest message and
\* its arm runs to the end, unless it panics
RunRecv ==
    /\ ~run_returned
    /\ ~panicked
    /\ api_rx # <<>>
    /\ Handle(Head(api_rx))
    /\ api_rx' = Tail(api_rx)
    /\ api_handled' = IF panicked' THEN api_handled ELSE Append(api_handled, Head(api_rx))
    /\ UNCHANGED <<api_tx_open, run_returned, api_sent, asset_vars>>

\* the iteration with "Err(..)": the channel is empty and no Sender is left
RunBreak ==
    /\ ~run_returned
    /\ ~panicked
    /\ api_rx = <<>>
    /\ ~api_tx_open
    /\ run_returned' = TRUE
    /\ UNCHANGED <<backend_vars, scene_vars, id_vars, egress_vars, ingress_vars, fin,
                   api_rx, api_tx_open, api_sent, api_handled, pool_vars, asset_vars>>

RunNext ==
    \/ \E msg \in ApiMsgs : ApiSend(msg)
    \/ ApiDrop
    \/ RunRecv
    \/ RunBreak

RunSpec == Init /\ [][RunNext]_vars

\* "self.api_rx.recv()" returning a message: what RunRecv does to the channel.
\* The steps of RunNext that take the head off api_rx are those of RunRecv, and
\* RunRecv can run wherever this can (ApiSend sends no more than the arms take)
RunTake ==
    /\ ~run_returned
    /\ ~panicked
    /\ api_rx # <<>>
    /\ api_rx' = Tail(api_rx)

\* the backend thread is scheduled for as long as it can take a step: recv
\* returns when a message waits or the channel is closed; the api owes nothing
RunFair == RunSpec /\ WF_api_rx(RunTake) /\ WF_vars(RunBreak)

----------------------------------------------------------------------------
(* The worker pool: RenderBackend::new, which makes every thread of the pool
   create its font context, and then the scopes of build_frame. The coordinator
   is the thread that owns the backend; a scope is open from thread_pool.scoped
   until every job executed in it has finished. *)

MaxFrames == 1

MaxNodes == 2

MaxGlyphs == 2

\* where the coordinator has a scope open
Scopes == {"new", "update_resource_lists", "raster_glyphs", "compile_visible_nodes"}

ScopeOpen == coordinator.pc \in Scopes

\* a frame to build: the visible nodes to compile, the glyphs no job has
\* rasterized yet, and the images and raster ops not yet in the texture cache
FrameInputs ==
    [nodes : 1..MaxNodes, glyphs : 0..MaxGlyphs, uploads : 0..1]

\* the jobs the coordinator executes in the scope it has open, in the order of
\* its for loop; n is the element of the loop a closure captures (none in new)
ScopeJobs ==
    LET jobs(n, kind) == [j \in 1..n |-> [kind |-> kind, n |-> j]]
    IN  CASE coordinator.pc = "new" -> [j \in 1..THREAD_COUNT |-> [kind |-> "init", n |-> 0]]
          [] coordinator.pc = "update_resource_lists" ->
                 jobs(Unwrap(coordinator.frame).nodes, "build_resource_list")
          [] coordinator.pc = "raster_glyphs" -> jobs(Len(raster_jobs), "raster")
          [] coordinator.pc = "compile_visible_nodes" ->
                 jobs(Unwrap(coordinator.frame).nodes, "compile")
          [] OTHER -> <<>>

\* the process made no backend before, or made one
PoolInit ==
    /\ BackendInit
    /\ fin = None
    /\ ChannelInit
    /\ font_context_count \in {0, THREAD_COUNT}
    /\ workers = [w \in Workers |-> [job |-> None, font_contexts |-> 0, init_tasks |-> 0]]
    /\ pool_queue = <<>>
    /\ coordinator = [pc |-> "new", submitted |-> 0, frames |-> 0, frame |-> None]
    /\ raster_jobs = <<>>
    /\ cache_writes = <<>>
    /\ AssetsInit

BackendIdle ==
    UNCHANGED <<backend_vars, scene_vars, id_vars, egress_vars, ingress_vars, fin,
                channel_vars, asset_vars>>

\* scope.execute: the next job of the for loop is handed to the pool
ScopeExecute ==
    /\ ScopeOpen
    /\ coordinator.submitted < Len(ScopeJobs)
    /\ pool_queue' = Append(pool_queue, ScopeJobs[coordinator.submitted + 1])
    /\ coordinator' = [coordinator EXCEPT !.submitted = @ + 1]
    /\ UNCHANGED <<font_context_count, workers, raster_jobs, cache_writes>>
    /\ BackendIdle

\* an idle thread of the pool takes the oldest job waiting
PoolTake(w) ==
    /\ workers[w].job = None
    /\ pool_queue # <<>>
    /\ workers' = [workers EXCEPT ![w].job = Some(Head(pool_queue))]
    /\ pool_queue' = Tail(pool_queue)
    /\ UNCHANGED <<font_context_count, coordinator, raster_jobs, cache_writes>>
    /\ BackendIdle

Running(w, kind) == workers[w].job # None /\ Unwrap(workers[w].job).kind = kind

\* FONT_CONTEXT.with: the thread-local is made at its first use on the thread
WithFontContext(worker) ==
    [worker EXCEPT !.font_contexts = IF @ = 0 THEN 1 ELSE @]

\* "FONT_CONTEXT_COUNT.fetch_add(1, SeqCst)" of an init task
InitEnter(w) ==
    /\ Running(w, "init")
    /\ workers' = [workers EXCEPT
                      ![w] = [WithFontContext(@) EXCEPT
                                 !.job = Some([kind |-> "wait", n |-> 0])]]
    /\ font_context_count' = font_context_count + 1
    /\ UNCHANGED <<pool_queue, coordinator, raster_jobs, cache_writes>>
    /\ BackendIdle

\* a barrier that lets every task through: StartBarrier is checked against it as
\* well
BarrierAlwaysOpen(count) == TRUE

\* "while FONT_CONTEXT_COUNT.load(SeqCst) != thread_count" is left
BarrierOpen(count) == count = THREAD_COUNT

\* the init task leaves its loop and ends
InitLeave(w) ==
    /\ Running(w, "wait")
    /\ BarrierOpen(font_context_count)
    /\ workers' = [workers EXCEPT ![w].job = None, ![w].init_tasks = @ + 1]
    /\ UNCHANGED <<font_context_count, pool_queue, coordinator, raster_jobs, cache_writes>>
    /\ BackendIdle

\* a write to the texture cache: who writes, whether a scope is open, how many
\* glyph jobs have no result yet
CacheWrite(by, op) ==
    [by |-> by, op |-> op, in_scope |-> ScopeOpen,
     unfinished |-> Cardinality({j \in 1..Len(raster_jobs) : raster_jobs[j].result = None})]

\* a glyph job that puts its glyph in the texture cache itself: CacheDiscipline
\* is checked against it as well
RasterJobInserts(w) == <<CacheWrite(<<"worker", w>>, "glyph")>>

\* the writes a glyph job makes to the texture cache: it has no reference to it
RasterJobWrites(w) == <<>>

\* the closure of raster_glyphs: "job.result = font_context.get_glyph(..)", job
\* being the element of jobs the closure was made for
RasterJob(w) ==
    /\ Running(w, "raster")
    /\ LET n == Unwrap(workers[w].job).n
       IN  raster_jobs' = [raster_jobs EXCEPT
                              ![n].result = Some([glyph_key |-> raster_jobs[n].glyph_key,
                                                  by |-> w])]
    /\ workers' = [workers EXCEPT ![w] = [WithFontContext(@) EXCEPT !.job = None]]
    /\ cache_writes' = cache_writes \o RasterJobWrites(w)
    /\ UNCHANGED <<font_context_count, pool_queue, coordinator>>
    /\ BackendIdle

\* the closures of update_resource_lists and compile_visible_nodes write their
\* own node; compile reads the texture cache
NodeJob(w) ==
    /\ Running(w, "build_resource_list") \/ Running(w, "compile")
    /\ workers' = [workers EXCEPT ![w].job = None]
    /\ UNCHANGED <<font_context_count, pool_queue, coordinator, raster_jobs, cache_writes>>
    /\ BackendIdle

\* where the coordinator goes on when scoped returns
AfterScope(pc) ==
    CASE pc = "new" -> "idle"
      [] pc = "update_resource_lists" -> "update_texture_cache_and_build_raster_jobs"
      [] pc = "raster_glyphs" -> "insert_glyphs"
      [] pc = "compile_visible_nodes" -> "idle"

\* scoped returns: every job was executed and has finished
ScopeJoin ==
    /\ ScopeOpen
    /\ coordinator.submitted = Len(ScopeJobs)
    /\ pool_queue = <<>>
    /\ \A w \in Workers : workers[w].job = None
    /\ coordinator' = [coordinator EXCEPT !.pc = AfterScope(@), !.submitted = 0]
    /\ UNCHANGED <<font_context_count, workers, pool_queue, raster_jobs, cache_writes>>
    /\ BackendIdle

\* build_frame up to the scope of update_resource_lists
FrameBegin(input) ==
    /\ coordinator.pc = "idle"
    /\ coordinator.frames < MaxFrames
    /\ coordinator' = [pc |-> "update_resource_lists", submitted |-> 0,
                       frames |-> coordinator.frames + 1, frame |-> Some(input)]
    /\ raster_jobs' = <<>>
    /\ UNCHANGED <<font_context_count, workers, pool_queue, cache_writes>>
    /\ BackendIdle

\* update_texture_cache_and_build_raster_jobs, and raster_glyphs up to its scope
BuildRasterJobs ==
    /\ coordinator.pc = "update_texture_cache_and_build_raster_jobs"
    /\ cache_writes' = cache_writes
                          \o [k \in 1..Unwrap(coordinator.frame).uploads |->
                                 CacheWrite(<<"coordinator">>, "image")]
    /\ raster_jobs' = [n \in 1..Unwrap(coordinator.frame).glyphs |->
                          [image_id |-> n, glyph_key |-> n, result |-> None]]
    /\ coordinator' = [coordinator EXCEPT !.pc = "raster_glyphs"]
    /\ UNCHANGED <<font_context_count, workers, pool_queue>>
    /\ BackendIdle

\* "for job in jobs" after the scope of raster_glyphs: the result of every job is
\* put in the texture cache; then build_frame goes on to compile_visible_nodes
InsertGlyphs ==
    /\ coordinator.pc = "insert_glyphs"
    /\ cache_writes' = cache_writes
                          \o [n \in 1..Len(raster_jobs) |-> CacheWrite(<<"coordinator">>, "glyph")]
    /\ coordinator' = [coordinator EXCEPT !.pc = "compile_visible_nodes"]
    /\ UNCHANGED <<font_context_count, workers, pool_queue, raster_jobs>>
    /\ BackendIdle

PoolNext ==
    \/ ScopeExecute
    \/ \E w \in Workers : PoolTake(w)
    \/ \E w \in Workers : InitEnter(w)
    \/ \E w \in Workers : InitLeave(w)
    \/ \E w \in Workers : RasterJob(w)
    \/ \E w \in Workers : NodeJob(w)
    \/ ScopeJoin
    \/ \E input \in FrameInputs : FrameBegin(input)
    \/ BuildRasterJobs
    \/ InsertGlyphs

PoolSpec == PoolInit /\ [][PoolNext]_vars

\* a step of pool thread w
WorkerStep(w) == PoolTake(w) \/ InitEnter(w) \/ InitLeave(w) \/ RasterJob(w) \/ NodeJob(w)

\* the coordinator and every thread of the pool are scheduled again and again: the
\* for loop of a scope goes on, a thread that can take or run a job does, and
\* scoped returns once its jobs have ended
PoolFair ==
    /\ PoolSpec
    /\ WF_pool_vars(ScopeExecute)
    /\ WF_pool_vars(ScopeJoin)
    /\ \A w \in Workers : WF_pool_vars(WorkerStep(w))

----------------------------------------------------------------------------
(* The AABB tree on its own: a tree over a scene rectangle of any of a few sizes,
   and items inserted into it one after another. *)

MaxInserts == 3

\* widths and heights below, at and above split_size, whose halves stay whole
\* numbers down to the leaves
SceneSizes == {256, 512, 600, 1024, 1200, 2048}

\* small items in the corners of the scene, one across its centre and one
\* beside the scene
ItemRects(scene) ==
    {MkRect(x, y, 10, 10) : x \in {0, scene.w - 10}, y \in {0, scene.h - 10}}
        \cup {MkRect((scene.w \div 2) - 5, (scene.h \div 2) - 5, 10, 10),
              MkRect(scene.w + 10, 0, 10, 10)}

AABBInit ==
    /\ nodes \in {init(MkRect(0, 0, w, h)) : w \in SceneSizes, h \in SceneSizes}
    /\ display_list_map = <<>>
    /\ draw_list_map = <<>>
    /\ stacking_contexts = <<>>
    /\ texture_cache = [next |-> 1, allocated |-> {}, freed |-> <<>>,
                        pending_updates |-> <<>>]
    /\ pipeline_epoch_map = <<>>
    /\ flat_draw_lists = <<[draw_list |-> <<>>]>>
    /\ scroll_offset = Point(0, 0)
    /\ render_targets = <<>>
    /\ next_batch_id = 1
    /\ next_draw_list_id = 1
    /\ result_msgs = <<>>
    /\ batch_log = <<>>
    /\ reset_at = 0
    /\ last_frame = None
    /\ msg_count = [add |-> 0, root |-> 0, scroll |-> 0]
    /\ scroll_hist = <<>>
    /\ panicked = FALSE
    /\ fin = None
    /\ ChannelInit
    /\ PoolReady
    /\ AssetsInit

\* one turn of the loop of build_aabb_tree over a draw list that grows by the
\* item: the item is inserted and keeps the node reference insert returns
TreeInsert(rect) ==
    /\ Len(flat_draw_lists[1].draw_list) < MaxInserts
    /\ LET r == insert(nodes, rect, 0, Len(flat_draw_lists[1].draw_list))
       IN  /\ nodes' = r.tree
           /\ flat_draw_lists' =
                  [flat_draw_lists EXCEPT
                      ![1].draw_list = Append(@, [rect |-> rect, node_index |-> r.node])]
    /\ UNCHANGED <<backend_vars, pipeline_epoch_map, scroll_offset,
                   render_targets, id_vars, egress_vars, ingress_vars, fin,
                   channel_vars, pool_vars, asset_vars>>

AABBNext == \E rect \in ItemRects(nodes[1].rect) : TreeInsert(rect)

AABBSpec == AABBInit /\ [][AABBNext]_vars

----------------------------------------------------------------------------
(* The flattener on stacking-context trees: the backend holds the display lists
   of a document and of the document of an iframe, and is sent one root after
   another. *)

\* display list 1, of the root: every slot has a rectangle, and background, content
\* and outlines have an iframe each, of pipelines 2, 1 and 3; 2, of a child: a
\* rectangle in every slot; 3, of another child, in mode PseudoFloat: background,
\* content and outlines; 4, 5 and 6, of the documents of the iframes: content
FlattenLists ==
    LET slot(n) == <<RectangleItem(MkRect(10 * n, 0, 10, 10))>>
        frame(n, pipeline) == <<IframeItem(MkRect(10 * n, 20, 10, 10), pipeline)>>
        list(id, pipeline, mode, slots) ==
            [id |-> id, pipeline_id |-> pipeline, epoch |-> 1, mode |-> mode,
             background_and_borders |-> slots[1],
             block_backgrounds_and_borders |-> slots[2], floats |-> slots[3],
             content |-> slots[4], positioned_content |-> slots[5],
             outlines |-> slots[6]]
        content == <<<<>>, <<>>, <<>>, slot(4), <<>>, <<>>>>
    IN  <<list(1, ROOT_PIPELINE_ID, "Default",
               <<slot(1) \o frame(1, 2), slot(2), slot(3), slot(4) \o frame(4, 1), slot(5),
                 slot(6) \o frame(6, 3)>>),
          list(2, ROOT_PIPELINE_ID, "Default", [n \in 1..6 |-> slot(n)]),
          list(3, ROOT_PIPELINE_ID, "PseudoFloat",
               <<slot(1), <<>>, <<>>, slot(4), <<>>, slot(6)>>),
          list(4, 1, "Default", content),
          list(5, 2, "Default", content),
          list(6, 3, "Default", content)>>

\* the slots for which add_draw_list makes a draw list, as (display list, slot)
FilledSlots ==
    {q \in (1..Len(FlattenLists)) \X (1..6) : SlotsOf(FlattenLists[q[1]])[q[2]] # <<>>}

\* the id DrawListID::new gave the draw list of a slot: they are made in the order
\* of the messages and of the slots
SlotId(d, n) ==
    Cardinality({q \in FilledSlots : q[1] < d \/ (q[1] = d /\ q[2] < n)}) + 1

\* the roots sent: the root context has display list 1 and no child, child A, or
\* children A and B in either order or B inside A, with every z_index of -1, 0, 1;
\* A has display list 2 and is Normal or a Multiply context, B has display list 3
FlattenRoots ==
    LET A(z, blend, children) ==
            StackingContext(MkRect(100, 0, 100, 100), MkRect(0, 0, 100, 100),
                            blend, z, children, <<2>>)
        B(z) == StackingContext(MkRect(0, 100, 100, 100), MkRect(0, 0, 100, 100),
                                "Normal", z, <<>>, <<3>>)
        Zs == {-1, 0, 1}
        Trees == {<<>>}
                 \cup {<<A(za, blend, <<>>)>> : za \in Zs, blend \in {"Normal", "Multiply"}}
                 \cup {<<A(za, blend, <<>>), B(zb)>> :
                           za \in Zs, zb \in Zs, blend \in {"Normal", "Multiply"}}
                 \cup {<<B(zb), A(za, blend, <<>>)>> :
                           za \in Zs, zb \in Zs, blend \in {"Normal", "Multiply"}}
                 \cup {<<A(za, blend, <<B(zb)>>)>> :
                           za \in Zs, zb \in Zs, blend \in {"Normal", "Multiply"}}
    IN  {Root(1, alpha, children, <<1>>) : alpha \in {0, 1}, children \in Trees}

\* the display lists are stored; the iframe documents have their roots set, or not
\* yet
FlattenInit ==
    /\ display_list_map =
           [d \in 1..Len(FlattenLists) |->
               DisplayListOf(FlattenLists[d],
                             [n \in 1..6 |-> IF <<d, n>> \in FilledSlots
                                             THEN Some(SlotId(d, n)) ELSE None])]
    /\ draw_list_map =
           [k \in 1..Cardinality(FilledSlots) |->
               LET q == CHOOSE r \in FilledSlots : SlotId(r[1], r[2]) = k
               IN  SlotsOf(FlattenLists[q[1]])[q[2]]]
    /\ next_draw_list_id = Cardinality(FilledSlots) + 1
    /\ stacking_contexts
           \in {<<>>, [p \in 1..3 |-> [Root(1, 0, <<>>, <<3 + p>>) EXCEPT !.pipeline_id = p]]}
    /\ texture_cache = [next |-> 1, allocated |-> {}, freed |-> <<>>,
                        pending_updates |-> <<>>]
    /\ pipeline_epoch_map = <<>>
    /\ nodes = <<>>
    /\ flat_draw_lists = <<>>
    /\ scroll_offset = Point(0, 0)
    /\ render_targets = <<>>
    /\ next_batch_id = 1
    /\ result_msgs = <<>>
    /\ batch_log = <<>>
    /\ reset_at = 0
    /\ last_frame = None
    /\ msg_count = [add |-> 0, root |-> 0, scroll |-> 0]
    /\ scroll_hist = <<>>
    /\ panicked = FALSE
    /\ fin = None
    /\ ChannelInit
    /\ PoolReady
    /\ AssetsInit

FlattenNext == \E m \in FlattenRoots : SetRootStackingContext(m) /\ UNCHANGED <<channel_vars, asset_vars>>

FlattenSpec == FlattenInit /\ [][FlattenNext]_vars

----------------------------------------------------------------------------
(* collect_draw_lists on its own: display lists of the three modes, with all, none
   or some of their slots filled, are added with AddDisplayList, and the draw
   lists of a stacking context that names up to MaxListed of them are collected.
   fin holds the stacking context's list of ids, the display lists as they were
   stored, and what collect_draw_lists returned. *)

MaxListed == 2

\* which of the six slots have items
Fillings == {<<1, 2, 3, 4, 5, 6>>, <<>>, <<1, 4, 6>>, <<2, 5>>}

ModeList(id, mode, filling) ==
    [id |-> id, pipeline_id |-> ROOT_PIPELINE_ID, epoch |-> 1, mode |-> mode,
     background_and_borders |->
         IF \E k \in DOMAIN filling : filling[k] = 1
         THEN <<RectangleItem(MkRect(10, 0, 10, 10))>> ELSE <<>>,
     block_backgrounds_and_borders |->
         IF \E k \in DOMAIN filling : filling[k] = 2
         THEN <<RectangleItem(MkRect(20, 0, 10, 10))>> ELSE <<>>,
     floats |->
         IF \E k \in DOMAIN filling : filling[k] = 3
         THEN <<RectangleItem(MkRect(30, 0, 10, 10))>> ELSE <<>>,
     content |->
         IF \E k \in DOMAIN filling : filling[k] = 4
         THEN <<RectangleItem(MkRect(40, 0, 10, 10))>> ELSE <<>>,
     positioned_content |->
         IF \E k \in DOMAIN filling : filling[k] = 5
         THEN <<RectangleItem(MkRect(50, 0, 10, 10))>> ELSE <<>>,
     outlines |->
         IF \E k \in DOMAIN filling : filling[k] = 6
         THEN <<RectangleItem(MkRect(60, 0, 10, 10))>> ELSE <<>>]

ModeLists ==
    {ModeList(id, mode, filling) :
        id \in 1..MaxAddDisplayList,
        mode \in {"Default", "PseudoFloat", "PseudoPositionedContent"},
        filling \in Fillings}

\* the lists of display-list ids a stacking context may hold
Listed(ids) == UNION {[1..n -> ids] : n \in 0..MaxListed}

\* StackingContext::collect_draw_lists for a stacking context with these display_lists
Collect(display_lists) ==
    /\ ~panicked
    /\ fin' = Some([display_lists |-> display_lists,
                    display_list_map |-> display_list_map,
                    result |-> collect_draw_lists(display_lists, Len(display_lists),
                                                  display_list_map)])
    /\ UNCHANGED <<backend_vars, scene_vars, id_vars, egress_vars, ingress_vars,
                   channel_vars, pool_vars, asset_vars>>

CollectNext ==
    \/ \E m \in ModeLists : AddDisplayList(m) /\ UNCHANGED <<channel_vars, asset_vars>>
    \/ \E display_lists \in Listed(DOMAIN display_list_map) : Collect(display_lists)

CollectSpec == Init /\ [][CollectNext]_vars

----------------------------------------------------------------------------
(* Scenes built one after the other: the display lists of every epoch are stored
   when the session starts, as after an AddDisplayList for each; the page of the
   first epoch is added again, the roots of any epoch set and the page scrolled in
   any order.  A root has no box, a
   Multiply box, a Screen box that holds a Normal box, or a Screen box that holds
   a Multiply box. *)

\* the backend's maps after AddDisplayList of each of msgs in turn; st is
\* [dls, dlm, next]
RECURSIVE Stored(_, _)
Stored(st, msgs) ==
    IF msgs = <<>> THEN st
    ELSE LET m == Head(msgs)
             r == AddSlots([dlm |-> st.dlm, next |-> st.next, ids |-> <<>>], SlotsOf(m), 1)
         IN  Stored([dls |-> [k \in (DOMAIN st.dls) \cup {m.id} |->
                                 IF k = m.id THEN DisplayListOf(m, r.ids) ELSE st.dls[k]],
                     dlm |-> r.dlm, next |-> r.next],
                    Tail(msgs))

RECURSIVE EpochLists(_)
EpochLists(e) ==
    IF e = 0 THEN <<>>
    ELSE EpochLists(e - 1) \o <<PageItems(e), BoxItems(e), FrameItems(e)>>

RebuildRoots ==
    RootMsgs
    \cup {Root(e, 0, <<Box(1100, "Screen",
                           <<Box(10, "Multiply", <<>>, <<e * 10 + 2>>)>>, <<>>)>>,
               <<e * 10 + 1>>) : e \in 1..MaxSetRoot}

RebuildInit ==
    LET st == Stored([dls |-> <<>>, dlm |-> <<>>, next |-> 1], EpochLists(MaxSetRoot))
    IN  /\ display_list_map = st.dls
        /\ draw_list_map = st.dlm
        /\ next_draw_list_id = st.next
        /\ stacking_contexts = <<>>
        /\ texture_cache = [next |-> 1, allocated |-> {}, freed |-> <<>>,
                            pending_updates |-> <<>>]
        /\ pipeline_epoch_map = <<>>
        /\ nodes = <<>>
        /\ flat_draw_lists = <<>>
        /\ scroll_offset = Point(0, 0)
        /\ render_targets = <<>>
        /\ next_batch_id = 1
        /\ result_msgs = <<>>
        /\ batch_log = <<>>
        /\ reset_at = 0
        /\ last_frame = None
        /\ msg_count = [add |-> 0, root |-> 0, scroll |-> 0]
        /\ scroll_hist = <<>>
        /\ panicked = FALSE
        /\ fin = None
        /\ ChannelInit
        /\ PoolReady
        /\ AssetsInit

RebuildNext ==
    \/ AddDisplayList(PageItems(1)) /\ UNCHANGED <<channel_vars, asset_vars>>
    \/ \E m \in RebuildRoots :
           SetRootStackingContext(m) /\ UNCHANGED <<channel_vars, asset_vars>>
    \/ \E delta \in Deltas : Scroll(delta) /\ UNCHANGED <<channel_vars, asset_vars>>

RebuildSpec == RebuildInit /\ [][RebuildNext]_vars

----------------------------------------------------------------------------
(* The auxiliary lists of a display list: an AuxiliaryListsBuilder receives up to
   MaxCalls calls of its four add functions, each with up to MaxItems items, and
   is finalized.  An item is a number; in the blob it takes the bytes of its
   type, the number in the first two of them.  fin holds the builder, the calls
   made with the range each returned, and the AuxiliaryLists once finalized. *)

MaxCalls == 3

MaxItems == 2

\* mem::size_of of the four item types
SizeOf(kind) ==
    CASE kind = "gradient_stops" -> 20
      [] kind = "complex_clip_regions" -> 48
      [] kind = "filters" -> 8
      [] kind = "glyph_instances" -> 12

AuxKinds == {"gradient_stops", "complex_clip_regions", "filters", "glyph_instances"}

AuxItems == {1, 2, 300}

AuxSlices == UNION {[1..n -> AuxItems] : n \in 0..MaxItems}

\* ItemRange::new: the items go to the end of the backing list
ItemRangeFrontNew(backing_list, items) ==
    [list |-> backing_list \o items, range |-> [start |-> 0, length |-> Len(items)]]

ItemRangeNew(backing_list, items) ==
    [list |-> backing_list \o items,
     range |-> [start |-> Len(backing_list), length |-> Len(items)]]

\* ItemRange::get: None stands for the panic of a slice out of range
ItemRangeGet(range, backing_list) ==
    IF range.start + range.length <= Len(backing_list)
    THEN Some(SubSeq(backing_list, range.start + 1, range.start + range.length))
    ELSE None

\* the bytes of one item
PodBytes(item, size) ==
    [b \in 1..size |-> IF b = 1 THEN item % 256
                       ELSE IF b = 2 THEN item \div 256
                       ELSE 0]

RECURSIVE convert_pod_to_blob(_, _)
convert_pod_to_blob(data, size) ==
    IF data = <<>> THEN <<>>
    ELSE PodBytes(Head(data), size) \o convert_pod_to_blob(Tail(data), size)

\* blob.len() / size_of::<T>() items, each read from its bytes
convert_blob_to_pod(blob, size) ==
    [k \in 1..(Len(blob) \div size) |->
        blob[(k - 1) * size + 1] + 256 * blob[(k - 1) * size + 2]]

AuxiliaryListsBuilderNew == [kind \in AuxKinds |-> <<>>]

\* AuxiliaryListsBuilder::finalize
FinalizeLists(builder) ==
    LET blob1 == convert_pod_to_blob(builder["gradient_stops"], SizeOf("gradient_stops"))
        gradient_stops_size == Len(blob1)
        blob2 == blob1 \o convert_pod_to_blob(builder["complex_clip_regions"],
                                              SizeOf("complex_clip_regions"))
        complex_clip_regions_size == Len(blob2) - gradient_stops_size
        blob3 == blob2 \o convert_pod_to_blob(builder["filters"], SizeOf("filters"))
        filters_size == Len(blob3) - (complex_clip_regions_size + gradient_stops_size)
        blob4 == blob3 \o convert_pod_to_blob(builder["glyph_instances"],
                                              SizeOf("glyph_instances"))
        glyph_instances_size ==
            Len(blob4) - (complex_clip_regions_size + gradient_stops_size + filters_size)
    IN  [data |-> blob4,
         descriptor |-> [gradient_stops_size |-> gradient_stops_size,
                         complex_clip_regions_size |-> complex_clip_regions_size,
                         filters_size |-> filters_size,
                         glyph_instances_size |-> glyph_instances_size]]

\* AuxiliaryListsDescriptor::size
DescriptorSize(descriptor) ==
    descriptor.gradient_stops_size + descriptor.complex_clip_regions_size
        + descriptor.filters_size + descriptor.glyph_instances_size

\* the four getters of AuxiliaryLists: the part of data each reads its items from
ListsSection(lists, kind) ==
    LET d == lists.descriptor
        start == CASE kind = "gradient_stops" -> 0
                   [] kind = "complex_clip_regions" -> d.gradient_stops_size
                   [] kind = "filters" ->
                          d.gradient_stops_size + d.complex_clip_regions_size
                   [] kind = "glyph_instances" ->
                          d.gradient_stops_size + d.complex_clip_regions_size
                              + d.filters_size
        end == CASE kind = "gradient_stops" -> d.gradient_stops_size
                 [] kind = "complex_clip_regions" -> start + d.complex_clip_regions_size
                 [] kind = "filters" -> start + d.filters_size
                 [] kind = "glyph_instances" -> Len(lists.data)
    IN  SubSeq(lists.data, start + 1, end)

ListsGet(lists, kind, range) ==
    ItemRangeGet(range, convert_blob_to_pod(ListsSection(lists, kind), SizeOf(kind)))

\* the four getters of AuxiliaryListsBuilder
BuilderGet(builder, kind, range) == ItemRangeGet(range, builder[kind])

AuxInit ==
    /\ BackendInit
    /\ ChannelInit
    /\ PoolReady
    /\ AssetsInit
    /\ fin = Some([builder |-> AuxiliaryListsBuilderNew, calls |-> <<>>, lists |-> None])

\* one of add_gradient_stops, add_complex_clip_regions, add_filters and
\* add_glyph_instances
AddAux(kind, items) ==
    /\ Unwrap(fin).lists = None
    /\ Len(Unwrap(fin).calls) < MaxCalls
    /\ LET r == ItemRangeNew(Unwrap(fin).builder[kind], items)
       IN  fin' = Some([Unwrap(fin) EXCEPT
                           !.builder[kind] = r.list,
                           !.calls = Append(@, [kind |-> kind, items |-> items,
                                                range |-> r.range])])
    /\ UNCHANGED <<backend_vars, scene_vars, id_vars, egress_vars, ingress_vars,
                   channel_vars, pool_vars, asset_vars>>

AddGradientStops(items) == AddAux("gradient_stops", items)

AddComplexClipRegions(items) == AddAux("complex_clip_regions", items)

AddFilters(items) == AddAux("filters", items)

AddGlyphInstances(items) == AddAux("glyph_instances", items)

FinalizeAux ==
    /\ Unwrap(fin).lists = None
    /\ fin' = Some([Unwrap(fin) EXCEPT !.lists = Some(FinalizeLists(Unwrap(fin).builder))])
    /\ UNCHANGED <<backend_vars, scene_vars, id_vars, egress_vars, ingress_vars,
                   channel_vars, pool_vars, asset_vars>>

AuxNext ==
    \/ \E items \in AuxSlices : AddGradientStops(items)
    \/ \E items \in AuxSlices : AddComplexClipRegions(items)
    \/ \E items \in AuxSlices : AddFilters(items)
    \/ \E items \in AuxSlices : AddGlyphInstances(items)
    \/ FinalizeAux

AuxSpec == AuxInit /\ [][AuxNext]_vars

----------------------------------------------------------------------------
(* DrawCommandBuilder on its own: a builder is loaded with the render items of a
   tile and finalized, one iteration of the loop of finalize a step.
   fin is [builder, tail, pos, st, result]: the builder, how many items were added
   to it after the start, the index of the next render item of the loop, the locals
   of finalize, and what finalize returned. *)

MaxDrawLists == 33

MaxTail == 3

LongRun == 16383

\* the corners of the polygon of a clipped band of a gradient
FanCorners == 5

UnitRect == MkRect(0, 0, 100, 100)

UnitContext ==
    [render_target_index |-> 0, overflow |-> UnitRect, final_transform |-> identity,
     device_pixel_ratio |-> DevicePixelRatio]

\* the builder of a tile that owns one rectangle in each of the first n draw lists
Rectangles(n) ==
    [DrawCommandBuilder(0) EXCEPT !.render_items =
        [i \in 1..n |->
            add_rectangle(DrawCommandBuilder(0), Key(i - 1, 0), UnitRect, UnitRect)
                .render_items[1]]]

\* compile hands the builder keys in ascending order: the next key is the first of
\* a later draw list or the next of the same one
NextKey(builder, fresh) ==
    IF builder.render_items = <<>> THEN Key(0, 0)
    ELSE LET k == Last(builder.render_items).sort_key
         IN  IF fresh THEN Key(k.draw_list_index + 1, 0)
             ELSE Key(k.draw_list_index, k.item_index + 1)

\* tiles of no draw list, and of about as many as a batch has palette slots
TileSizes == {0} \cup ((MAX_MATRICES_PER_BATCH - 1)..MaxDrawLists)

BatchInit ==
    /\ BackendInit
    /\ ChannelInit
    /\ PoolReady
    /\ AssetsInit
    /\ fin \in {Some([builder |-> Rectangles(n), tail |-> 0, pos |-> 0,
                       st |-> FinalizeStart(1), result |-> None]) : n \in TileSizes}

CanAdd ==
    /\ Unwrap(fin).pos = 0
    /\ Unwrap(fin).tail < MaxTail

Added(builder) ==
    /\ fin' = Some([Unwrap(fin) EXCEPT !.builder = builder, !.tail = @ + 1])
    /\ UNCHANGED <<backend_vars, scene_vars, id_vars, egress_vars, ingress_vars,
                   channel_vars, pool_vars, asset_vars>>

AddRectangle(fresh) ==
    /\ CanAdd
    /\ LET b == Unwrap(fin).builder
       IN  Added(add_rectangle(b, NextKey(b, fresh), UnitRect, UnitRect))

AddText(fresh, glyphs) ==
    /\ CanAdd
    /\ LET b == Unwrap(fin).builder
       IN  Added(add_text(b, NextKey(b, fresh), glyphs))

\* a gradient of two stops whose band is clipped to a polygon of n corners
AddGradient(fresh, n) ==
    /\ CanAdd
    /\ LET b == Unwrap(fin).builder
       IN  Added(add_gradient(b, NextKey(b, fresh), <<n>>))

AddComposite(fresh) ==
    /\ CanAdd
    /\ LET b == Unwrap(fin).builder
       IN  Added(add_composite(b, NextKey(b, fresh), UnitContext, UnitRect, 1, "Multiply"))

\* finalize is entered
FinalizeEnter ==
    /\ Unwrap(fin).pos = 0
    /\ fin' = Some([Unwrap(fin) EXCEPT !.pos = 1])
    /\ UNCHANGED <<backend_vars, scene_vars, id_vars, egress_vars, ingress_vars,
                   channel_vars, pool_vars, asset_vars>>

\* one iteration of "for item in self.render_items"
FinalizeStep ==
    /\ Unwrap(fin).pos \in 1..Len(Unwrap(fin).builder.render_items)
    /\ LET f == Unwrap(fin)
       IN  fin' = Some([f EXCEPT !.st = FinalizeItem(f.builder, f.st,
                                                     f.builder.render_items[f.pos]),
                                 !.pos = @ + 1])
    /\ UNCHANGED <<backend_vars, scene_vars, id_vars, egress_vars, ingress_vars,
                   channel_vars, pool_vars, asset_vars>>

\* the flush after the loop, and the return
FinalizeReturn ==
    /\ Unwrap(fin).pos = Len(Unwrap(fin).builder.render_items) + 1
    /\ Unwrap(fin).result = None
    /\ LET f == Unwrap(fin)
       IN  fin' = Some([f EXCEPT !.result = Some(Flush(f.builder, f.st))])
    /\ UNCHANGED <<backend_vars, scene_vars, id_vars, egress_vars, ingress_vars,
                   channel_vars, pool_vars, asset_vars>>

BatchNext ==
    \/ \E fresh \in BOOLEAN : AddRectangle(fresh)
    \/ \E fresh \in BOOLEAN, glyphs \in {1, LongRun} : AddText(fresh, glyphs)
    \/ \E fresh \in BOOLEAN : AddGradient(fresh, FanCorners)
    \/ \E fresh \in BOOLEAN : AddComposite(fresh)
    \/ FinalizeEnter
    \/ FinalizeStep
    \/ FinalizeReturn

BatchSpec == BatchInit /\ [][BatchNext]_vars

----------------------------------------------------------------------------
(* What the renderer has been told: readings of the egress channel *)

\* the ids of the updates of one kind sent so far
UpdatedIds(op) ==
    {batch_log[i].id : i \in {j \in 1..Len(batch_log) : batch_log[j].op = op}}

CommandsOf(frame) ==
    UNION {{frame.layers[l].commands[i] : i \in 1..Len(frame.layers[l].commands)} :
              l \in 1..Len(frame.layers)}

FrameBatchIds(frame) ==
    {c.info.batch_id : c \in {d \in CommandsOf(frame) : d.info.kind = "Batch"}}

\* the display items whose vertices the Create update of a batch carried
HeldBy(batch_id) ==
    UNION {{batch_log[i].vertices[v].sort_key : v \in 1..Len(batch_log[i].vertices)} :
              i \in {j \in 1..Len(batch_log) :
                        batch_log[j].op = "Create" /\ batch_log[j].id = batch_id}}

\* the tile that owns a display item
OwnerOf(key) ==
    Unwrap(flat_draw_lists[key.draw_list_index + 1].draw_list[key.item_index + 1].node_index)

\* the Batch commands of one layer, by position
BatchPositions(layer) ==
    {i \in 1..Len(layer.commands) : layer.commands[i].info.kind = "Batch"}

\* the UpdateUniforms updates of the result messages of the last message
UniformsSent ==
    UNION {{result_msgs[m].updates[u] :
               u \in {v \in 1..Len(result_msgs[m].updates) :
                         result_msgs[m].updates[v].op = "UpdateUniforms"}} :
              m \in {n \in 1..Len(result_msgs) : result_msgs[n].msg = "UpdateBatches"}}

\* the batch ids of the Create updates of the result messages of the last message
CreatedNow ==
    UNION {{result_msgs[m].updates[u].id :
               u \in {v \in 1..Len(result_msgs[m].updates) :
                         result_msgs[m].updates[v].op = "Create"}} :
              m \in {n \in 1..Len(result_msgs) : result_msgs[n].msg = "UpdateBatches"}}

OpsSent ==
    UNION {{result_msgs[m].updates[u].op : u \in 1..Len(result_msgs[m].updates)} :
              m \in {n \in 1..Len(result_msgs) : result_msgs[n].msg = "UpdateBatches"}}

\* the state right after a SetRootStackingContext that was processed to its end
RootJustSet == result_msgs # <<>> /\ scroll_hist = <<>>

\* the state right after a SetRootStackingContext that rebuilt the scene
SceneJustBuilt == RootJustSet /\ ROOT_PIPELINE_ID \in DOMAIN stacking_contexts

----------------------------------------------------------------------------
(* Claims about the coordinator, checked under Spec *)

\* C1: delta closure.  After N >= 1 SetRootStackingContext messages (and the
\* AddDisplayList messages they need), the batch ids that received a Create minus
\* those that received a Destroy, over all UpdateBatches sent so far, are exactly
\* the batch ids the Batch commands of the most recent NewFrame reference.
DeltaClosure ==
    (msg_count.root >= 1 /\ msg_count.scroll = 0 /\ last_frame # None)
        => UpdatedIds("Create") \ UpdatedIds("Destroy")
               = FrameBatchIds(Unwrap(last_frame))

\* the pairs (i, j, A, B) of one layer: A is held by the batch of the Batch command
\* at i and B by the batch of the one at j
OrderedPairs(layer) ==
    UNION {UNION {{<<i, j, A, B>> :
                      A \in HeldBy(layer.commands[i].info.batch_id),
                      B \in HeldBy(layer.commands[j].info.batch_id)} :
                     j \in BatchPositions(layer)} :
              i \in BatchPositions(layer)}

\* the sort keys of the batches of a pair are in paint order
InPaintOrder(layer, p) ==
    LET a == layer.commands[p[1]]
        b == layer.commands[p[2]]
    IN  /\ ~KeyLess(b.sort_key, a.sort_key)
        /\ a.sort_key = b.sort_key => a.info.batch_id = b.info.batch_id

\* the tiles that own the two items of a pair are one tile, or overlap
TilesMeet(p) ==
    \/ OwnerOf(p[3]) = OwnerOf(p[4])
    \/ intersects(nodes[OwnerOf(p[3]) + 1].rect, nodes[OwnerOf(p[4]) + 1].rect)

\* C2, as stated: paint order.  For any two display items A and B painted into the
\* same render target with key(A) < key(B), in the command list of that target's
\* layer the sort_key of the batch holding A is <= the sort_key of the batch holding
\* B, and the two are equal only if A and B are in the same batch; for every tile
\* layout, items owned by different tiles included.
PaintOrder ==
    last_frame # None =>
        \A l \in 1..Len(Unwrap(last_frame).layers) :
            \A p \in OrderedPairs(Unwrap(last_frame).layers[l]) :
                KeyLess(p[3], p[4]) => InPaintOrder(Unwrap(last_frame).layers[l], p)

\* C2, as the code has it: paint order holds for two items owned by the same tile
\* or by two tiles whose rectangles overlap.
PaintOrderOverlapping ==
    last_frame # None =>
        \A l \in 1..Len(Unwrap(last_frame).layers) :
            \A p \in OrderedPairs(Unwrap(last_frame).layers[l]) :
                (KeyLess(p[3], p[4]) /\ TilesMeet(p))
                    => InPaintOrder(Unwrap(last_frame).layers[l], p)

\* the frame draws two items of two different overlapping tiles, in two batches
PaintOrderAcrossTiles ==
    /\ last_frame # None
    /\ \E l \in 1..Len(Unwrap(last_frame).layers) :
           \E p \in OrderedPairs(Unwrap(last_frame).layers[l]) :
               /\ KeyLess(p[3], p[4])
               /\ OwnerOf(p[3]) # OwnerOf(p[4])
               /\ TilesMeet(p)
               /\ p[1] # p[2]

\* the items of the flat draw lists, as keys
ItemKeys ==
    UNION {{Key(dl - 1, ii - 1) : ii \in 1..Len(flat_draw_lists[dl].draw_list)} :
              dl \in 1..Len(flat_draw_lists)}

\* where a key is filed: the (node, position) pairs of the src_items holding it
FiledAt(key) ==
    UNION {{<<n - 1, i>> : i \in {j \in 1..Len(nodes[n].src_items) :
                                     nodes[n].src_items[j] = key}} :
              n \in 1..Len(nodes)}

ItemAt(key) ==
    flat_draw_lists[key.draw_list_index + 1].draw_list[key.item_index + 1]

TransformedRect(key) ==
    LET t == flat_draw_lists[key.draw_list_index + 1].draw_context.final_transform
        r == ItemAt(key).rect
    IN  MkRect(r.x + t.x, r.y + t.y, r.w, r.h)

RootOverflow == stacking_contexts[ROOT_PIPELINE_ID].stacking_context.overflow

\* an item with a non-empty transformed rectangle that meets the root overflow
InScene(key) ==
    /\ TransformedRect(key).w > 0
    /\ TransformedRect(key).h > 0
    /\ intersects(TransformedRect(key), RootOverflow)

\* C5: single assignment.  After build_aabb_tree every display item whose
\* transformed rectangle is non-empty and meets the root overflow rectangle is in
\* the src_items of exactly one node, the node of its node_index; and no key is in
\* the src_items of two nodes, or twice in those of one.
SingleAssignment ==
    SceneJustBuilt =>
        \A key \in ItemKeys :
            /\ Cardinality(FiledAt(key)) <= 1
            /\ InScene(key) =>
                   /\ ItemAt(key).node_index # None
                   /\ \E i \in 1..Len(nodes[Unwrap(ItemAt(key).node_index) + 1].src_items) :
                          FiledAt(key) = {<<Unwrap(ItemAt(key).node_index), i>>}

\* a scene just built with an item filed in a tile that has children, an item filed
\* in a leaf, and an item outside the scene that no tile has
AssignedAcrossTree ==
    /\ SceneJustBuilt
    /\ \E key \in ItemKeys :
           /\ InScene(key)
           /\ nodes[OwnerOf(key) + 1].children # None
    /\ \E key \in ItemKeys :
           /\ InScene(key)
           /\ nodes[OwnerOf(key) + 1].children = None
    /\ \E key \in ItemKeys : ~InScene(key) /\ FiledAt(key) = {}

\* the flat draw lists made of the draw lists of a stacking context itself
OwnLists(ctx) ==
    {f \in 1..Len(flat_draw_lists) :
        /\ flat_draw_lists[f].id # None
        /\ \E d \in 1..Len(ctx.display_lists) :
               /\ ctx.display_lists[d] \in DOMAIN display_list_map
               /\ Unwrap(flat_draw_lists[f].id)
                      \in DrawListIds(display_list_map[ctx.display_lists[d]])}

\* render target k (k >= 1) is the one of blend context ctx inside target enclosing:
\* its texture is allocated, one flat draw list of target enclosing is the single
\* Composite item with that texture and the blend mode of ctx, and the own lists of
\* ctx draw into k under the identity transform
TargetOf(ctx, enclosing, k) ==
    /\ render_targets[k + 1].texture_id # None
    /\ Unwrap(render_targets[k + 1].texture_id) \in texture_cache.allocated
    /\ \E f \in 1..Len(flat_draw_lists) :
           /\ flat_draw_lists[f].id = None
           /\ Len(flat_draw_lists[f].draw_list) = 1
           /\ flat_draw_lists[f].draw_list[1].item = "Composite"
           /\ flat_draw_lists[f].draw_list[1].texture_id
                  = Unwrap(render_targets[k + 1].texture_id)
           /\ flat_draw_lists[f].draw_list[1].blend_mode = ctx.mix_blend_mode
           /\ flat_draw_lists[f].draw_context.render_target_index = enclosing
           /\ \E i \in 1..Len(render_targets[enclosing + 1].draw_list_indices) :
                  render_targets[enclosing + 1].draw_list_indices[i] = f - 1
    /\ \A f \in OwnLists(ctx) :
           /\ flat_draw_lists[f].draw_context.render_target_index = k
           /\ flat_draw_lists[f].draw_context.final_transform = Point(0, 0)

RECURSIVE Isolated(_, _)
Isolated(ctx, enclosing) ==
    IF ctx.mix_blend_mode # "Normal"
    THEN \E k \in 1..(Len(render_targets) - 1) :
             /\ k # enclosing
             /\ TargetOf(ctx, enclosing, k)
             /\ \A c \in 1..Len(ctx.children) : Isolated(ctx.children[c], k)
    ELSE /\ \A f \in OwnLists(ctx) :
                flat_draw_lists[f].draw_context.render_target_index = enclosing
         /\ \A c \in 1..Len(ctx.children) : Isolated(ctx.children[c], enclosing)

RECURSIVE BlendContexts(_)
BlendContexts(ctx) ==
    LET RECURSIVE Sum(_)
        Sum(c) == IF c = 0 THEN 0 ELSE BlendContexts(ctx.children[c]) + Sum(c - 1)
    IN  (IF ctx.mix_blend_mode # "Normal" THEN 1 ELSE 0) + Sum(Len(ctx.children))

\* C6: blend-mode isolation at flatten time.  For every stacking context with a
\* non-Normal mix-blend mode the flattener (i) allocates an offscreen texture and
\* pushes one new render target, (ii) appends a one-item Composite draw list with
\* that texture and the blend mode whose draw context names the enclosing target,
\* (iii) gives the draw lists of the context itself the new target index and the
\* identity transform; and a Normal context creates no render target.
BlendIsolation ==
    SceneJustBuilt =>
        /\ Isolated(stacking_contexts[ROOT_PIPELINE_ID].stacking_context, 0)
        /\ Len(render_targets)
               = 1 + BlendContexts(stacking_contexts[ROOT_PIPELINE_ID].stacking_context)
        /\ \A j, k \in 2..Len(render_targets) :
               render_targets[j].texture_id = render_targets[k].texture_id => j = k

\* a scene just built from a root with a blend context that has draw lists of its own
BlendContextFlattened ==
    /\ SceneJustBuilt
    /\ \E c \in 1..Len(stacking_contexts[ROOT_PIPELINE_ID].stacking_context.children) :
           LET ctx == stacking_contexts[ROOT_PIPELINE_ID].stacking_context.children[c]
           IN  /\ ctx.mix_blend_mode # "Normal"
               /\ OwnLists(ctx) # {}
               /\ Len(render_targets) = 2

\* the render target a target is composited into: the one the draw context of its
\* Composite item names
EnclosingTargets(texture_id) ==
    {flat_draw_lists[f].draw_context.render_target_index :
        f \in {g \in 1..Len(flat_draw_lists) :
                  /\ Len(flat_draw_lists[g].draw_list) = 1
                  /\ flat_draw_lists[g].draw_list[1].item = "Composite"
                  /\ flat_draw_lists[g].draw_list[1].texture_id = texture_id}}

\* C7: composite pairing in the frame.  Whenever a NewFrame has a layer for an
\* offscreen render target (a layer with a texture id), the layer of the enclosing
\* render target in the same frame has a Composite command whose source texture is
\* that texture.
CompositePairing ==
    last_frame # None =>
        \A l \in 1..Len(Unwrap(last_frame).layers) :
            Unwrap(last_frame).layers[l].texture_id # None =>
                \E m \in 1..Len(Unwrap(last_frame).layers) :
                    /\ \E e \in EnclosingTargets(Unwrap(Unwrap(last_frame).layers[l].texture_id)) :
                           Unwrap(last_frame).layers[m].texture_id
                               = render_targets[e + 1].texture_id
                    /\ \E i \in 1..Len(Unwrap(last_frame).layers[m].commands) :
                           /\ Unwrap(last_frame).layers[m].commands[i].info.kind = "Composite"
                           /\ Unwrap(last_frame).layers[m].commands[i].info.color_texture_id
                                  = Unwrap(Unwrap(last_frame).layers[l].texture_id)

\* the last two Scroll messages of a run of Scroll messages
ScrollA == scroll_hist[Len(scroll_hist) - 1]

ScrollB == scroll_hist[Len(scroll_hist)]

\* the offset the single message Scroll(a + b) leaves
OffsetOfSum ==
    Point(Min(0, ScrollA.from.x + ScrollA.delta.x + ScrollB.delta.x),
          Min(0, ScrollA.from.y + ScrollA.delta.y + ScrollB.delta.y))

\* the palettes sent translate every draw list of every batch by the offset
PalettesAt(offset) ==
    \A u \in UniformsSent :
        \A n \in 1..Len(nodes) :
            (nodes[n].compiled_node # None
             /\ u.id \in DOMAIN Unwrap(nodes[n].compiled_node).matrix_maps) =>
                \A d \in DOMAIN Unwrap(nodes[n].compiled_node).matrix_maps[u.id] :
                    LET t == flat_draw_lists[d + 1].draw_context.final_transform
                    IN  u.matrix_palette[Unwrap(nodes[n].compiled_node).matrix_maps[u.id][d]]
                            = Point(t.x + offset.x, t.y + offset.y)

FirstUnclamped ==
    /\ ScrollA.from.x + ScrollA.delta.x <= 0
    /\ ScrollA.from.y + ScrollA.delta.y <= 0

TileRetained(before, after) ==
    /\ after.rect = before.rect
    /\ after.node_index = before.node_index
    /\ after.children = before.children
    /\ after.src_items = before.src_items
    /\ before.compiled_node # None => after.compiled_node = before.compiled_node

ScrollRetainsStep ==
    msg_count'.scroll = msg_count.scroll + 1 =>
        /\ scroll_offset'.x = Min(0, scroll_offset.x + Last(scroll_hist').delta.x)
        /\ scroll_offset'.y = Min(0, scroll_offset.y + Last(scroll_hist').delta.y)
        /\ flat_draw_lists' = flat_draw_lists
        /\ render_targets' = render_targets
        /\ pipeline_epoch_map' = pipeline_epoch_map
        /\ Len(nodes') = Len(nodes)
        /\ \A n \in 1..Len(nodes) : TileRetained(nodes[n], nodes'[n])
        /\ "Destroy" \notin OpsSent'
        /\ result_msgs'[Len(result_msgs') - 1].msg = "NewFrame"

\* C9: a Scroll message sets scroll_offset to min(0, old + delta) on each axis and
\* renders again without flattening: flat_draw_lists, render_targets,
\* pipeline_epoch_map, the nodes of the tree and their src_items, and the compiled
\* state of every tile compiled before the message are unchanged, and no Destroy
\* update is sent.
ScrollRetains == [][ScrollRetainsStep]_vars

\* a Scroll message brought a tile into view that was compiled for it, while a tile
\* compiled before stayed in view
ScrolledOntoNewTile ==
    /\ scroll_hist # <<>>
    /\ CreatedNow # {}
    /\ \E u \in UniformsSent : u.id \notin CreatedNow

\* C10: when SetRootStackingContext rebuilds the scene, reset sends a Destroy for
\* every batch id that received a Create since the previous reset, before the tiles
\* that hold them are discarded.
ResetDestroysAll ==
    \A i \in 1..reset_at :
        batch_log[i].op = "Create" =>
            \E j \in (i + 1)..reset_at :
                batch_log[j].op = "Destroy" /\ batch_log[j].id = batch_log[i].id

\* the update lists of the UpdateBatches messages of the last message
UpdateLists ==
    {result_msgs[m].updates :
        m \in {n \in 1..Len(result_msgs) : result_msgs[n].msg = "UpdateBatches"}}

CreateOnceState ==
    \A i, j \in 1..Len(batch_log) :
        (/\ i < j
         /\ batch_log[i].op = "Create"
         /\ batch_log[j].op = "Create"
         /\ batch_log[i].id = batch_log[j].id)
        => \E k \in (i + 1)..(j - 1) :
               batch_log[k].op = "Destroy" /\ batch_log[k].id = batch_log[i].id

\* the batches of the tiles compiled before a Scroll message are not created by it
ScrollCreatesStep ==
    msg_count'.scroll = msg_count.scroll + 1 =>
        \A n \in 1..Len(nodes) :
            nodes[n].compiled_node # None =>
                (DOMAIN Unwrap(nodes[n].compiled_node).matrix_maps) \cap CreatedNow' = {}

\* C12: over all the batch updates of a session no batch id is in two Create
\* updates unless a Destroy of that id lies between them; the render of a Scroll
\* message sends no Create for a batch of a tile that was compiled before it.
CreateOnce == []CreateOnceState /\ [][ScrollCreatesStep]_vars

\* a second Scroll message rendered a batch that an earlier render created, with a
\* uniforms update and no Create
RetainedBatchRedrawn ==
    /\ Len(scroll_hist) >= 2
    /\ \E u \in UniformsSent : u.id \in UpdatedIds("Create") \ CreatedNow

\* the kinds of the result messages of the last message, in the order sent
KindsSent(msgs) == [i \in 1..Len(msgs) |-> msgs[i].msg]

EgressShapes ==
    {<<"NewFrame", "new_frame_ready">>,
     <<"UpdateTextureCache", "NewFrame", "new_frame_ready">>,
     <<"UpdateBatches", "NewFrame", "new_frame_ready">>,
     <<"UpdateTextureCache", "UpdateBatches", "NewFrame", "new_frame_ready">>}

EgressStep ==
    /\ (msg_count'.root = msg_count.root + 1 \/ msg_count'.scroll = msg_count.scroll + 1)
           => /\ KindsSent(result_msgs') \in EgressShapes
              /\ \A m \in 1..Len(result_msgs') :
                     result_msgs'[m].msg \in {"UpdateTextureCache", "UpdateBatches"}
                         => Len(result_msgs'[m].updates) > 0
    /\ msg_count'.add = msg_count.add + 1 => result_msgs' = <<>>

\* C13: egress protocol.  Every SetRootStackingContext and every Scroll message
\* produces one NewFrame followed by one notifier call, preceded by at most one
\* UpdateTextureCache and then at most one UpdateBatches, each with a non-empty
\* update list; an Add message produces no result message.
EgressProtocol == [][EgressStep]_vars

\* the draw lists the scene holds, by id
FlatIds ==
    {Unwrap(flat_draw_lists[f].id) :
        f \in {g \in 1..Len(flat_draw_lists) : flat_draw_lists[g].id # None}}

\* a display list that SetRootStackingContext(m) has to evict
Superseded(display_list, m) ==
    display_list.pipeline_id = m.pipeline_id /\ display_list.epoch < m.epoch

\* what a step that processed SetRootStackingContext(m) to its end leaves
Evicted(m) ==
    /\ \A k \in DOMAIN display_list_map' : ~Superseded(display_list_map'[k], m)
    /\ \A k \in DOMAIN display_list_map :
           IF Superseded(display_list_map[k], m)
           THEN DrawListIds(display_list_map[k])
                    \cap ((DOMAIN draw_list_map') \cup FlatIds') = {}
           ELSE /\ k \in DOMAIN display_list_map'
                /\ display_list_map'[k] = display_list_map[k]

EvictionStep ==
    \A m \in RootMsgs :
        (SetRootStackingContext(m) /\ ~panicked') => Evicted(m)

\* C14: epoch eviction.  After SetRootStackingContext(pipeline p, epoch e) is
\* processed, display_list_map holds no display list of pipeline p with an epoch
\* below e, draw_list_map and the flat draw lists of the scene hold none of the draw
\* lists of those display lists, and every display list of another pipeline or of
\* an epoch >= e is still stored as it was.
Eviction == [][EvictionStep]_vars

\* a SetRootStackingContext was processed that removed a draw list, with a display
\* list of another pipeline and a lower epoch still stored
EvictedAndKept ==
    /\ RootJustSet
    /\ \E d \in 1..(next_draw_list_id - 1) : d \notin (DOMAIN draw_list_map) \cup FlatIds
    /\ \E p \in DOMAIN stacking_contexts :
           \E k \in DOMAIN display_list_map :
               /\ display_list_map[k].pipeline_id # p
               /\ display_list_map[k].epoch < stacking_contexts[p].epoch

\* the Create updates among the result messages
Creates(msgs) ==
    LET sent == SelectSeq(msgs, LAMBDA m : m.msg = "UpdateBatches")
    IN  IF sent = <<>> THEN <<>>
        ELSE SelectSeq(sent[1].updates, LAMBDA u : u.op = "Create")

\* a frame and the batches created with it, each created batch named by its place
\* among the Create updates (as a negative number; the batches created before
\* keep their ids)
Observed(frame, creates) ==
    LET name(id) == IF \E k \in 1..Len(creates) : creates[k].id = id
                    THEN 0 - (CHOOSE k \in 1..Len(creates) : creates[k].id = id)
                    ELSE id
        named(c) == IF c.info.kind = "Batch"
                    THEN [c EXCEPT !.info.batch_id = name(@)] ELSE c
    IN  [layers |-> [l \in 1..Len(frame.layers) |->
                        [c \in 1..Len(frame.layers[l].commands) |->
                            named(frame.layers[l].commands[c])]],
         created |-> [k \in 1..Len(creates) |-> [creates[k] EXCEPT !.id = 0 - k]]]

ObservedOf(f) ==
    Observed(f.frame, SelectSeq(f.pending_updates, LAMBDA u : u.op = "Create"))

\* the tree as the latest render found it: the nodes whose batches it created
\* not compiled yet
BeforeCompile(tree, created) ==
    [i \in 1..Len(tree) |->
        IF /\ tree[i].compiled_node # None
           /\ (DOMAIN Unwrap(tree[i].compiled_node).matrix_maps) \cap created # {}
        THEN [tree[i] EXCEPT !.compiled_node = None]
        ELSE tree[i]]

CreatedIds == {Creates(result_msgs)[k].id : k \in 1..Len(Creates(result_msgs))}

FirstCreated == CHOOSE id \in CreatedIds : \A other \in CreatedIds : id <= other

CulledBeforeCompile ==
    Culled(BeforeCompile(nodes, CreatedIds), flat_draw_lists, scroll_offset)

\* under every schedule in schedules, build_frame on the culled tree gives what
\* was observed
SchedulesAgree(culled, schedules, observed) ==
    \A f \in schedules :
        ObservedOf(ScheduledFrame(culled, flat_draw_lists, render_targets, scroll_offset,
                                  pipeline_epoch_map, FirstCreated, f)) = observed

\* C17: whatever the interleaving of the compile jobs of a render, the commands
\* of each layer of its NewFrame, in order, and the contents of each batch it
\* created are the same, up to a renaming of the ids of the batches
ScheduleFree ==
    (result_msgs # <<>> /\ CreatedIds # {})
        => SchedulesAgree(CulledBeforeCompile,
                          Schedules(BatchCounts(CulledBeforeCompile, flat_draw_lists)),
                          Observed(Unwrap(last_frame), Creates(result_msgs)))

\* a render whose jobs had more than one interleaving, one of which hands out
\* the ids otherwise than the frame sent has them
ScheduleMattered ==
    /\ result_msgs # <<>>
    /\ CreatedIds # {}
    /\ \E f \in Schedules(BatchCounts(CulledBeforeCompile, flat_draw_lists)) :
           ScheduledFrame(CulledBeforeCompile, flat_draw_lists, render_targets,
                          scroll_offset, pipeline_epoch_map, FirstCreated, f).frame
               # Unwrap(last_frame)

\* the rectangle the latest cull was given
CullRect == translate_rect(Viewport, Point(-scroll_offset.x, -scroll_offset.y))

\* the nodes whose children node i is one of
ParentsOf(tree, i) ==
    {p \in 1..Len(tree) :
        tree[p].children # None /\ i - 1 \in {Unwrap(tree[p].children),
                                              Unwrap(tree[p].children) + 1}}

\* C22: after every cull a node is marked visible if and only if its rectangle
\* intersects the viewport translated by the negated scroll offset; no mark of
\* an earlier cull survives; the ancestors of a visible node are visible
CullMarks ==
    \A i \in 1..Len(nodes) :
        /\ nodes[i].is_visible <=> intersects(nodes[i].rect, CullRect)
        /\ nodes[i].is_visible => \A p \in ParentsOf(nodes, i) : nodes[p].is_visible

\* a scroll has moved the viewport off a tile the cull before had marked, and a
\* tile two levels below the root is visible
MarkDropped ==
    /\ result_msgs # <<>>
    /\ scroll_hist # <<>>
    /\ \E i \in 1..Len(nodes) :
           /\ ~nodes[i].is_visible
           /\ intersects(nodes[i].rect,
                         translate_rect(Viewport,
                                        Point(-Last(scroll_hist).from.x,
                                              -Last(scroll_hist).from.y)))
    /\ \E i \in 1..Len(nodes) :
           /\ nodes[i].is_visible
           /\ \E p \in ParentsOf(nodes, i) : ParentsOf(nodes, p) # {}

----------------------------------------------------------------------------
(* Claims about the flattener, checked under FlattenSpec *)

RECURSIVE Concat(_)
Concat(seqs) == IF seqs = <<>> THEN <<>> ELSE Head(seqs) \o Concat(Tail(seqs))

\* the draw lists display list d gives to one of the six kinds of a stacking
\* context; the two pseudo modes give all of them to one kind
GivenTo(kind, d) ==
    LET all == <<d.background_and_borders_id, d.block_backgrounds_and_borders_id,
                 d.floats_id, d.content_id, d.positioned_content_id, d.outlines_id>>
        at == CASE kind = "background_and_borders" -> 1
                [] kind = "block_background_and_borders" -> 2
                [] kind = "floats" -> 3
                [] kind = "content" -> 4
                [] kind = "positioned_content" -> 5
                [] kind = "outlines" -> 6
    IN  IF d.mode = "Default" THEN all[at]
        ELSE IF (d.mode = "PseudoFloat" /\ kind = "floats")
                \/ (d.mode = "PseudoPositionedContent" /\ kind = "positioned_content")
        THEN Concat(all)
        ELSE <<>>

\* the draw lists of one kind of a stacking context, in the order of its display
\* lists
ListsOfKind(ctx, kind) ==
    Concat([i \in 1..Len(ctx.display_lists) |->
               GivenTo(kind, display_list_map[ctx.display_lists[i]])])

\* the items of a draw list the scene holds
ItemsOfList(id) ==
    flat_draw_lists[CHOOSE f \in 1..Len(flat_draw_lists) :
                        flat_draw_lists[f].id = Some(id)].draw_list

\* the roots of the iframes among the items of the draw lists ids, in order, that
\* have a root stacking context
IframeRoots(ids) ==
    Concat([i \in 1..Len(ids) |->
               Concat([j \in 1..Len(ItemsOfList(ids[i])) |->
                          IF /\ ItemsOfList(ids[i])[j].item = "Iframe"
                             /\ ItemsOfList(ids[i])[j].iframe \in DOMAIN stacking_contexts
                          THEN <<stacking_contexts[ItemsOfList(ids[i])[j].iframe]
                                     .stacking_context>>
                          ELSE <<>>])])

\* the order the claim gives for the draw lists of a stacking context and of
\* everything below it
RECURSIVE ClaimedOrder(_)
ClaimedOrder(ctx) ==
    LET before == ListsOfKind(ctx, "background_and_borders")
        middle == ListsOfKind(ctx, "block_background_and_borders")
                  \o ListsOfKind(ctx, "floats") \o ListsOfKind(ctx, "content")
                  \o ListsOfKind(ctx, "positioned_content")
        below == [c \in 1..Len(ctx.children) |->
                     IF ctx.children[c].z_index < 0
                     THEN ClaimedOrder(ctx.children[c]) ELSE <<>>]
        above == [c \in 1..Len(ctx.children) |->
                     IF ctx.children[c].z_index >= 0
                     THEN ClaimedOrder(ctx.children[c]) ELSE <<>>]
        frames == IframeRoots(before \o middle)
    IN  before \o Concat(below) \o middle \o Concat(above)
            \o Concat([i \in 1..Len(frames) |-> ClaimedOrder(frames[i])])
            \o ListsOfKind(ctx, "outlines")

\* the ids of the flat draw lists that came from draw_list_map, in order
FlatOrder ==
    LET own == SelectSeq(flat_draw_lists, LAMBDA f : f.id # None)
    IN  [f \in 1..Len(own) |-> Unwrap(own[f].id)]

----------------------------------------------------------------------------
(* Claims about the loop of run, checked under RunFair *)

IsPrefix(a, b) == Len(a) <= Len(b) /\ SubSeq(b, 1, Len(a)) = a

\* what run has finished with is the start of what was sent, and the rest waits
\* in the channel in the order of its sending
FifoState ==
    /\ IsPrefix(api_handled, api_sent)
    /\ ~panicked => api_sent = api_handled \o api_rx

\* C16: run takes the messages one at a time in the order of their sending, each
\* handled to the end of its render before the next is read, and once the
\* channel is closed run returns with every message sent handled
RunContract ==
    /\ []FifoState
    /\ (~api_tx_open) ~> (run_returned /\ api_handled = api_sent)

----------------------------------------------------------------------------
(* Claims about the worker pool, checked under PoolSpec *)

\* every write to the texture cache so far was made by the coordinator with no
\* scope open, and the glyphs were put in with every glyph job finished
CacheWritesState ==
    \A k \in 1..Len(cache_writes) :
        /\ cache_writes[k].by = <<"coordinator">>
        /\ ~cache_writes[k].in_scope
        /\ cache_writes[k].op = "glyph" => cache_writes[k].unfinished = 0

\* a step of a pool thread that runs a job writes nothing to the texture cache,
\* and of the glyph jobs it changes at most the result of its own
WorkerWritesStep ==
    \A w \in Workers :
        (workers[w].job # None /\ workers'[w] # workers[w])
            => /\ cache_writes' = cache_writes
               /\ Len(raster_jobs') = Len(raster_jobs)
               /\ \A j \in 1..Len(raster_jobs) :
                      raster_jobs'[j] # raster_jobs[j]
                          => /\ Running(w, "raster")
                             /\ j = Unwrap(workers[w].job).n
                             /\ raster_jobs'[j] = [raster_jobs[j] EXCEPT
                                                      !.result = raster_jobs'[j].result]

\* C18: the texture cache is written by the coordinator alone and never while a
\* scope of the pool is open; a glyph job writes the result of its own job and
\* nothing else, and the results go into the cache once every job of the scope
\* has finished
CacheDiscipline == []CacheWritesState /\ [][WorkerWritesStep]_vars

\* a frame with an upload and two glyphs rasterized by two threads, all in the
\* cache
GlyphsInserted ==
    /\ coordinator.pc = "compile_visible_nodes"
    /\ Len(raster_jobs) >= 2
    /\ Unwrap(raster_jobs[1].result).by # Unwrap(raster_jobs[2].result).by
    /\ \E k \in 1..Len(cache_writes) : cache_writes[k].op = "image"
    /\ Cardinality({k \in 1..Len(cache_writes) : cache_writes[k].op = "glyph"}) >= 2

\* every init task new executes has passed its fetch_add
AllEntered ==
    /\ coordinator.pc = "new" => coordinator.submitted = THREAD_COUNT
    /\ \A k \in 1..Len(pool_queue) : pool_queue[k].kind # "init"
    /\ \A w \in Workers : ~Running(w, "init")

\* C19: new executes one init task for each thread of the pool; no init task
\* ends before all thread_count of them have entered the barrier; so when new has
\* returned every thread has run one init task and owns one font context
StartBarrier ==
    /\ coordinator.pc = "new" => Len(ScopeJobs) = Cardinality(Workers)
    /\ (\E w \in Workers : workers[w].init_tasks > 0) => AllEntered
    /\ coordinator.pc # "new"
           => \A w \in Workers : workers[w].init_tasks = 1 /\ workers[w].font_contexts = 1

\* new has returned, after eight init tasks
NewReturned ==
    /\ coordinator.pc = "idle"
    /\ coordinator.frames = 0
    /\ \A w \in Workers : workers[w].init_tasks = 1

----------------------------------------------------------------------------
(* Claims about the AABB tree, checked under AABBSpec *)

\* the two children of node i are the halves of its rectangle, side by side
HalvedByWidth(tree, i) ==
    LET rect == tree[i].rect
        left == tree[Unwrap(tree[i].children) + 1].rect
        right == tree[Unwrap(tree[i].children) + 2].rect
    IN  /\ left = MkRect(rect.x, rect.y, left.w, rect.h)
        /\ right = MkRect(rect.x + left.w, rect.y, left.w, rect.h)
        /\ left.w + right.w = rect.w

\* the two children of node i are the halves of its rectangle, one above the other
HalvedByHeight(tree, i) ==
    LET rect == tree[i].rect
        left == tree[Unwrap(tree[i].children) + 1].rect
        right == tree[Unwrap(tree[i].children) + 2].rect
    IN  /\ left = MkRect(rect.x, rect.y, rect.w, left.h)
        /\ right = MkRect(rect.x, rect.y + left.h, rect.w, left.h)
        /\ left.h + right.h = rect.h

\* every node that was split was split as the rule says, by_width telling when
\* the width is taken, and no leaf an insert stopped at is one the rule splits
SplitRuleWith(by_width(_)) ==
    \A i \in 1..Len(nodes) :
        LET rect == nodes[i].rect
        IN  IF nodes[i].children # None
            THEN IF by_width(rect) THEN HalvedByWidth(nodes, i)
                 ELSE rect.h > SPLIT_SIZE /\ HalvedByHeight(nodes, i)
            ELSE nodes[i].src_items # <<>>
                     => ~by_width(rect) /\ ~(rect.h > SPLIT_SIZE)

\* C20 as stated: a leaf an insert reaches is split in two equal halves along the
\* width if width > split_size and width >= height, otherwise along the height if
\* height > split_size, and not otherwise; a square larger than split_size is
\* split along its width
SplitRuleAsStated ==
    SplitRuleWith(LAMBDA rect : rect.w > SPLIT_SIZE /\ rect.w >= rect.h)

\* C20 amended: the width is taken only if width > split_size and width > height;
\* a square larger than split_size is split along its height
SplitRule ==
    SplitRuleWith(LAMBDA rect : rect.w > SPLIT_SIZE /\ rect.w > rect.h)

\* a square larger than split_size was split, and so was a node wider than high,
\* and an item lies in a leaf
SquareSplit ==
    /\ \E i \in 1..Len(nodes) :
           /\ nodes[i].children # None
           /\ nodes[i].rect.w = nodes[i].rect.h
           /\ HalvedByHeight(nodes, i)
    /\ \E i \in 1..Len(nodes) :
           /\ nodes[i].children # None
           /\ nodes[i].rect.w > nodes[i].rect.h
           /\ HalvedByWidth(nodes, i)
    /\ \E i \in 1..Len(nodes) : nodes[i].children = None /\ nodes[i].src_items # <<>>

\* the node the insert rule names for rect in the tree below node i, if any
RECURSIVE RuleNode(_, _, _)
RuleNode(tree, i, rect) ==
    IF tree[i + 1].children = None THEN Some(i)
    ELSE LET child == Unwrap(tree[i + 1].children)
             left == intersects(tree[child + 1].rect, rect)
             right == intersects(tree[child + 2].rect, rect)
         IN  IF left /\ right THEN Some(i)
             ELSE IF left THEN RuleNode(tree, child, rect)
             ELSE IF right THEN RuleNode(tree, child + 1, rect)
             ELSE None

\* how often key is among the src_items of node i
Holds(tree, i, key) ==
    Cardinality({n \in 1..Len(tree[i].src_items) : tree[i].src_items[n] = key})

\* C21: insert of rectangle R goes down from the root; at a node with children
\* the item is stored there if R intersects both children, the descent goes on
\* into the one child R intersects, and if R intersects neither the item is
\* stored nowhere and no node reference is returned; at a node that stays a leaf
\* the item is stored there
InsertRule ==
    \A k \in 1..Len(flat_draw_lists[1].draw_list) :
        LET item == flat_draw_lists[1].draw_list[k]
        IN  /\ item.node_index = RuleNode(nodes, 0, item.rect)
            /\ \A i \in 1..Len(nodes) :
                   Holds(nodes, i, Key(0, k - 1))
                       = IF item.node_index = Some(i - 1) THEN 1 ELSE 0

\* three inserts: one dropped, one kept at a node with children, one in a leaf
\* below the root
InsertedThreeWays ==
    \E a, b, c \in 1..Len(flat_draw_lists[1].draw_list) :
        /\ flat_draw_lists[1].draw_list[a].node_index = None
        /\ flat_draw_lists[1].draw_list[b].node_index # None
        /\ nodes[Unwrap(flat_draw_lists[1].draw_list[b].node_index) + 1].children # None
        /\ flat_draw_lists[1].draw_list[c].node_index # None
        /\ Unwrap(flat_draw_lists[1].draw_list[c].node_index) > 0
        /\ nodes[Unwrap(flat_draw_lists[1].draw_list[c].node_index) + 1].children = None

----------------------------------------------------------------------------
(* Claims about the frame, checked under Spec *)

\* how many times a command is in the compiled node of a tile, and in a layer
TimesIn(commands, c) == Cardinality({i \in 1..Len(commands) : commands[i] = c})

\* how many times the visible tiles have a command
RECURSIVE TimesVisible(_, _)
TimesVisible(i, c) ==
    IF i > Len(nodes) THEN 0
    ELSE (IF nodes[i].is_visible
          THEN TimesIn(Unwrap(nodes[i].compiled_node).commands, c) ELSE 0)
         + TimesVisible(i + 1, c)

\* the commands the tiles have for one render target: of the visible tiles, and of
\* the compiled tiles that are not visible
TargetCommands(t, visible) ==
    UNION {{Unwrap(nodes[n].compiled_node).commands[i] :
               i \in {j \in 1..Len(Unwrap(nodes[n].compiled_node).commands) :
                         Unwrap(nodes[n].compiled_node).commands[j].render_target = t}} :
              n \in {m \in 1..Len(nodes) : /\ nodes[m].compiled_node # None
                                           /\ nodes[m].is_visible = visible}}

\* the layers of the last frame that are drawn into the texture of target t
LayersOf(t) ==
    {l \in 1..Len(Unwrap(last_frame).layers) :
        Unwrap(last_frame).layers[l].texture_id = render_targets[t + 1].texture_id}

Ascending(commands) ==
    \A i, j \in 1..Len(commands) :
        i < j => ~KeyLess(commands[j].sort_key, commands[i].sort_key)

\* C26: frame assembly.  A NewFrame has at most one layer per render target; the
\* layer of a target holds exactly the commands of the currently visible compiled
\* tiles whose render_target is that target, sorted ascending by (draw_list_index,
\* item_index); a target with no such command has no layer, and commands of tiles
\* that are not visible are not in the frame.
FrameAssembly ==
    (last_frame # None /\ ~panicked) =>
        /\ \A l \in 1..Len(Unwrap(last_frame).layers) :
               \E t \in 0..(Len(render_targets) - 1) : l \in LayersOf(t)
        /\ \A t \in 0..(Len(render_targets) - 1) :
               IF TargetCommands(t, TRUE) = {}
               THEN LayersOf(t) = {}
               ELSE /\ Cardinality(LayersOf(t)) = 1
                    /\ \A l \in LayersOf(t) :
                           LET commands == Unwrap(last_frame).layers[l].commands
                           IN  /\ \A i \in 1..Len(commands) :
                                      commands[i] \in TargetCommands(t, TRUE)
                               /\ \A c \in TargetCommands(t, TRUE) :
                                      TimesIn(commands, c) = TimesVisible(1, c)
                               /\ Ascending(commands)
                               /\ Unwrap(last_frame).layers[l].size = render_targets[t + 1].size
        /\ \A t \in 0..(Len(render_targets) - 1) :
               \A c \in TargetCommands(t, FALSE) :
                   c \notin CommandsOf(Unwrap(last_frame))

\* the last frame has a layer with the commands of two tiles, while all the
\* commands of another render target are of compiled tiles that are not visible
FrameOfSomeTiles ==
    /\ last_frame # None
    /\ ~panicked
    /\ \E t \in 0..(Len(render_targets) - 1) :
           TargetCommands(t, FALSE) # {} /\ TargetCommands(t, TRUE) = {}
    /\ \E n, m \in 1..Len(nodes) :
           /\ n # m
           /\ nodes[n].is_visible /\ Unwrap(nodes[n].compiled_node).commands # <<>>
           /\ nodes[m].is_visible /\ Unwrap(nodes[m].compiled_node).commands # <<>>
           /\ Unwrap(nodes[n].compiled_node).commands[1].render_target
                  = Unwrap(nodes[m].compiled_node).commands[1].render_target

\* the NewFrame messages among the result messages of the last message
FramesSent ==
    {result_msgs[m].frame : m \in {n \in 1..Len(result_msgs) : result_msgs[n].msg = "NewFrame"}}

\* the matrix map of a batch, as the tile that compiled it keeps it
MatrixMapsOf(batch_id) ==
    {Unwrap(nodes[n].compiled_node).matrix_maps[batch_id] :
        n \in {m \in 1..Len(nodes) :
                  /\ nodes[m].compiled_node # None
                  /\ batch_id \in DOMAIN Unwrap(nodes[m].compiled_node).matrix_maps}}

\* the palette has one entry per slot of the matrix map, and the entry of the slot
\* of draw list d is the final transform of d translated by the scroll offset
PaletteOf(palette, matrix_map) ==
    /\ DOMAIN palette = 0..(Cardinality(DOMAIN matrix_map) - 1)
    /\ \A d \in DOMAIN matrix_map :
           /\ matrix_map[d] \in DOMAIN palette
           /\ palette[matrix_map[d]]
                  = Point(flat_draw_lists[d + 1].draw_context.final_transform.x
                              + scroll_offset.x,
                          flat_draw_lists[d + 1].draw_context.final_transform.y
                              + scroll_offset.y)
    /\ \A d, e \in DOMAIN matrix_map : matrix_map[d] = matrix_map[e] => d = e

\* C27: for every Batch command in a NewFrame, the UpdateBatches message of the
\* same render contains an UpdateUniforms for that batch id whose palette has one
\* entry per matrix_map slot, and the entry of the slot assigned to draw list d
\* equals d's final_transform translated by the scroll offset current at that
\* render.
UniformsFollowFrame ==
    ~panicked =>
        \A frame \in FramesSent :
            \A id \in FrameBatchIds(frame) :
                /\ Cardinality(MatrixMapsOf(id)) = 1
                /\ \E u \in UniformsSent :
                       /\ u.id = id
                       /\ \A matrix_map \in MatrixMapsOf(id) :
                              PaletteOf(u.matrix_palette, matrix_map)

\* a frame was sent at a scroll offset other than zero, and one of its batches has
\* the items of a draw list whose transform is not the identity
UniformsOfScrolledFrame ==
    /\ ~panicked
    /\ scroll_offset # Point(0, 0)
    /\ \E frame \in FramesSent :
           \E id \in FrameBatchIds(frame) :
               \E matrix_map \in MatrixMapsOf(id) :
                   \E d \in DOMAIN matrix_map :
                       flat_draw_lists[d + 1].draw_context.final_transform # Point(0, 0)

----------------------------------------------------------------------------
(* compile across tiles and render targets: a page with one rectangle in its
   background list and one in its content list, both in the leftmost tile, and a
   child stacking context painted between the two (z_index -1) or after them
   (z_index 0), in the target of the page (Normal) or in a target of its own
   (Multiply), whose only item is in the leftmost tile, across its right edge or
   right of it. *)

TilePage ==
    Builder(1, 1, <<RectangleItem(MkRect(0, 0, 100, 100))>>,
            <<RectangleItem(MkRect(50, 50, 100, 100))>>, <<>>)

TileBoxXs == <<10, 500, 600>>

TileBox(n) ==
    Builder(1 + n, 1, <<>>, <<RectangleItem(MkRect(TileBoxXs[n], 0, 100, 100))>>, <<>>)

TileLists == {TilePage} \cup {TileBox(n) : n \in 1..Len(TileBoxXs)}

TileRoots ==
    {Root(1, 0, <<StackingContext(MkRect(x, 0, 600, 100), MkRect(0, 0, 600, 100),
                                  mode, z, <<>>, <<1 + n>>)>>, <<1>>) :
        x \in {0, 1100}, mode \in {"Normal", "Multiply"}, z \in {-1, 0},
        n \in 1..Len(TileBoxXs)}

TileNext ==
    \/ \E m \in TileLists : AddDisplayList(m) /\ UNCHANGED <<channel_vars, asset_vars>>
    \/ \E m \in TileRoots : SetRootStackingContext(m) /\ UNCHANGED <<channel_vars, asset_vars>>
    \/ \E delta \in Deltas : Scroll(delta) /\ UNCHANGED <<channel_vars, asset_vars>>

TileSpec == Init /\ [][TileNext]_vars

\* the Create updates of the batches compiled from the scene in place
LiveCreates ==
    {batch_log[i] : i \in {j \in (reset_at + 1)..Len(batch_log) :
                              batch_log[j].op = "Create"}}

RenderTargetOf(key) ==
    flat_draw_lists[key.draw_list_index + 1].draw_context.render_target_index

\* an item of another node whose rectangle meets the rectangle of the tile
ForeignTo(key, tile) ==
    /\ ItemAt(key).node_index # None
    /\ OwnerOf(key) # tile
    /\ intersects(TransformedRect(key), nodes[tile + 1].rect)

\* the foreign items between two items of one tile, by key
ForeignBetween(a, b) ==
    {f \in ItemKeys : KeyLess(a, f) /\ KeyLess(f, b) /\ ForeignTo(f, OwnerOf(a))}

\* C23, as stated: while compiling a tile, for every item key between the tile's
\* first and last src_item that is owned by a different node and whose rectangle
\* intersects the tile's rectangle, the open builder of that item's render target
\* is finalized before any later item of the tile is added, so no batch of the
\* tile contains items from both sides of such a foreign item.
ForeignItemSplits ==
    ~panicked =>
        \A u \in LiveCreates :
            \A v, w \in 1..Len(u.vertices) :
                ForeignBetween(u.vertices[v].sort_key, u.vertices[w].sort_key) = {}

\* C23, as the code has it: only the builder of the render target of the foreign
\* item is finalized, so no batch of the tile contains items from both sides of a
\* foreign item that is painted into the render target of the batch.
ForeignItemSplitsItsTarget ==
    ~panicked =>
        \A u \in LiveCreates :
            \A v, w \in 1..Len(u.vertices) :
                \A f \in ForeignBetween(u.vertices[v].sort_key, u.vertices[w].sort_key) :
                    RenderTargetOf(f) # RenderTargetOf(u.vertices[v].sort_key)

\* two items of one tile and one render target are in two batches, and a foreign
\* item of that render target lies between them
ForeignItemSplitBatch ==
    /\ ~panicked
    /\ \E u1, u2 \in LiveCreates :
           /\ u1.id # u2.id
           /\ \E v \in 1..Len(u1.vertices) : \E w \in 1..Len(u2.vertices) :
                  /\ OwnerOf(u1.vertices[v].sort_key) = OwnerOf(u2.vertices[w].sort_key)
                  /\ RenderTargetOf(u1.vertices[v].sort_key)
                         = RenderTargetOf(u2.vertices[w].sort_key)
                  /\ \E f \in ForeignBetween(u1.vertices[v].sort_key,
                                             u2.vertices[w].sort_key) :
                         RenderTargetOf(f) = RenderTargetOf(u1.vertices[v].sort_key)

----------------------------------------------------------------------------
(* The backend with fonts and images: AddFont and AddImage register templates,
   and the display lists hold text, images, borders and box shadows. A page has,
   in the two tiles the viewport shows, two runs of text with a glyph in common,
   two borders with the same corners, one of them dotted, an image and a box
   shadow; and in the tile right of the viewport a run of text in a second font,
   a glyph seen before, the image again and a box shadow that is a plain
   rectangle. A second display list is the content of a box scrolled far down. *)

FontIds == {1, 2}

ImageIds == {101}

AssetPage(epoch) ==
    Builder(epoch * 10 + 4, epoch,
            <<BorderItem(MkRect(0, 0, 100, 100), 8, 4, "Dotted"),
              BoxShadowItem(MkRect(10, 110, 100, 100), 2, 0, 4, "None")>>,
            <<TextItem(MkRect(0, 0, 100, 20), 1, 12, 0, <<1, 2>>),
              ImageItem(MkRect(600, 0, 100, 100), 101),
              TextItem(MkRect(600, 100, 100, 20), 1, 12, 0, <<2, 3>>),
              BorderItem(MkRect(600, 200, 100, 100), 8, 4, "Solid")>>,
            <<TextItem(MkRect(1100, 0, 100, 20), 2, 12, 0, <<1, 4>>),
              TextItem(MkRect(1100, 50, 100, 20), 1, 12, 0, <<1>>),
              ImageItem(MkRect(1100, 100, 100, 100), 101),
              BoxShadowItem(MkRect(1100, 300, 100, 100), 0, 0, 3, "None")>>)

\* how far the content of the scrolled box is from the origin of the box: 2^25
FarDown == 2 ^ 25

\* the content of a box scrolled far down: a dotted border
FarItems(epoch) ==
    Builder(epoch * 10 + 5, epoch,
            <<BorderItem(MkRect(0, FarDown, 100, 100), 8, 6, "Dotted")>>, <<>>, <<>>)

\* a box whose content, FarDown below its origin, lies at the top of the page
FarBox(display_lists) ==
    StackingContext(MkRect(0, -FarDown, 200, 200), MkRect(0, FarDown, 200, 200),
                    "Normal", 0, <<>>, display_lists)

AssetLists == UNION {{AssetPage(e), FarItems(e)} : e \in 1..MaxSetRoot}

AssetRoots ==
    UNION {{Root(e, 0, <<>>, <<e * 10 + 4>>),
            Root(e, 0, <<FarBox(<<e * 10 + 5>>)>>, <<e * 10 + 4>>)} : e \in 1..MaxSetRoot}

\* ApiMsg::AddFont
AddFont(font_id) ==
    /\ ~panicked
    /\ font_templates' = font_templates \cup {font_id}
    /\ result_msgs' = <<>>
    /\ scroll_hist' = <<>>
    /\ UNCHANGED <<backend_vars, scene_vars, id_vars, batch_log, reset_at, last_frame,
                   msg_count, panicked, fin, channel_vars, pool_vars,
                   image_templates, glyph_to_image_map, raster_to_image_map,
                   image_items, next_image_id, asset_log, compile_lookups>>

\* ApiMsg::AddImage
AddImage(image_id) ==
    /\ ~panicked
    /\ image_templates' = image_templates \cup {image_id}
    /\ result_msgs' = <<>>
    /\ scroll_hist' = <<>>
    /\ UNCHANGED <<backend_vars, scene_vars, id_vars, batch_log, reset_at, last_frame,
                   msg_count, panicked, fin, channel_vars, pool_vars,
                   font_templates, glyph_to_image_map, raster_to_image_map,
                   image_items, next_image_id, asset_log, compile_lookups>>

\* the maps and the cache as the scheduler left them, and what compile looked up
AssetsSet(p) ==
    /\ glyph_to_image_map' = p.st.glyph_to_image_map
    /\ raster_to_image_map' = p.st.raster_to_image_map
    /\ image_items' = p.st.image_items
    /\ next_image_id' = p.st.next_image_id
    /\ asset_log' = asset_log \o p.st.log
    /\ compile_lookups' = p.lookups
    /\ UNCHANGED <<font_templates, image_templates>>

\* whether build_frame stops the thread: in the scheduler, or in compile at a
\* lookup that finds nothing
Stops(p) == p.st.panic \/ \E l \in p.lookups : ~l.present

\* the thread stops inside build_frame: no message is sent
BuildFrameStops(p) ==
    /\ ~panicked
    /\ panicked' = TRUE
    /\ result_msgs' = <<>>
    /\ AssetsSet(p)
    /\ UNCHANGED <<backend_vars, scene_vars, id_vars, batch_log, reset_at, last_frame,
                   scroll_hist, fin, channel_vars, pool_vars>>

\* build_scene of SetRootStackingContext(m)
SceneBuilt(m) ==
    build_scene(KeptDrawLists(m), KeptDisplayLists(m), WithRoot(m),
                nodes, render_targets, texture_cache)

\* Scroll(delta) with the assets of its build_frame; p is what Prepared returned
ScrollPrepared(delta, p) ==
    IF Stops(p)
    THEN /\ msg_count.scroll < MaxScroll
         /\ msg_count' = [msg_count EXCEPT !.scroll = @ + 1]
         /\ BuildFrameStops(p)
    ELSE /\ Scroll(delta) /\ UNCHANGED channel_vars
         /\ AssetsSet(p)

\* SetRootStackingContext(m) with the assets of its build_frame; reaches tells
\* whether the handler reaches build_frame with a new scene
RootPrepared(m, reaches, p) ==
    IF reaches /\ Stops(p)
    THEN /\ msg_count.root < MaxSetRoot
         /\ msg_count' = [msg_count EXCEPT !.root = @ + 1]
         /\ BuildFrameStops(p)
    ELSE /\ SetRootStackingContext(m) /\ UNCHANGED channel_vars
         /\ IF reaches THEN AssetsSet(p) ELSE UNCHANGED asset_vars

\* b is what build_scene returned
RootScene(m, b, removed) ==
    RootPrepared(m, removed /\ ~b.panic /\ b.built,
                 IF removed /\ ~b.panic /\ b.built
                 THEN Prepared(Culled(b.tree, b.flat, scroll_offset), b.flat)
                 ELSE [st |-> Assets, lookups |-> {}])

AssetNext ==
    \/ \E font_id \in FontIds : AddFont(font_id)
    \/ \E image_id \in ImageIds : AddImage(image_id)
    \/ \E m \in AssetLists : AddDisplayList(m) /\ UNCHANGED <<channel_vars, asset_vars>>
    \/ \E m \in AssetRoots :
          RootScene(m, SceneBuilt(m),
                    OldDrawListIds(m) \subseteq DOMAIN ReturnDrawLists(draw_list_map,
                                                                       flat_draw_lists))
    \/ \E delta \in Deltas :
          ScrollPrepared(delta,
                         Prepared(Culled(nodes, flat_draw_lists,
                                         scroll(scroll_offset, delta)),
                                  flat_draw_lists))

AssetSpec == Init /\ [][AssetNext]_vars

----------------------------------------------------------------------------
(* Claims about the batch builder, checked under BatchSpec *)

\* the batches finalize has closed so far, the open one, and the ones it returned
BatchesOf(f) ==
    {f.st.batches[i] : i \in 1..Len(f.st.batches)}
    \cup {f.st.current_batch[i] : i \in 1..Len(f.st.current_batch)}
    \cup (IF f.result = None THEN {}
          ELSE {Unwrap(f.result).batches[i] : i \in 1..Len(Unwrap(f.result).batches)})

\* C3: batch vertex cap.  Every batch finalize returns holds at most 65,535
\* vertices, whatever render items were added, items of more than one vertex and
\* batches already close to the cap included.
VertexCap ==
    (fin # None /\ Unwrap(fin).result # None) =>
        \A i \in 1..Len(Unwrap(Unwrap(fin).result).batches) :
            VerticesLen(Unwrap(Unwrap(fin).result).batches[i].vertices)
                <= MAX_VERTICES_PER_BATCH

MatrixCapState ==
    fin # None =>
        \A b \in BatchesOf(Unwrap(fin)) :
            Cardinality(DOMAIN b.matrix_map) <= MAX_MATRICES_PER_BATCH

\* the iteration of finalize for a Draw item of a draw list the open batch has no
\* slot for, when the open batch has 32: the open batch is closed as it is, and the
\* item is the first of a new batch
MatrixCapStep ==
    (/\ fin # None
     /\ Unwrap(fin).pos \in 1..Len(Unwrap(fin).builder.render_items)
     /\ Unwrap(fin').pos = Unwrap(fin).pos + 1
     /\ Unwrap(fin).builder.render_items[Unwrap(fin).pos].kind = "Draw"
     /\ Unwrap(fin).st.current_batch # None
     /\ Cardinality(DOMAIN Unwrap(Unwrap(fin).st.current_batch).matrix_map)
            = MAX_MATRICES_PER_BATCH
     /\ Unwrap(fin).builder.render_items[Unwrap(fin).pos].sort_key.draw_list_index
            \notin DOMAIN Unwrap(Unwrap(fin).st.current_batch).matrix_map)
    => /\ Unwrap(fin').st.batches
              = Append(Unwrap(fin).st.batches, Unwrap(Unwrap(fin).st.current_batch))
       /\ Unwrap(Unwrap(fin').st.current_batch).batch_id
              # Unwrap(Unwrap(fin).st.current_batch).batch_id
       /\ Unwrap(Unwrap(fin').st.current_batch).sort_key
              = Unwrap(fin).builder.render_items[Unwrap(fin).pos].sort_key
       /\ DOMAIN Unwrap(Unwrap(fin').st.current_batch).matrix_map
              = {Unwrap(fin).builder.render_items[Unwrap(fin).pos].sort_key.draw_list_index}

\* C4: batch matrix cap.  The matrix_map of every batch has at most 32 entries; an
\* item whose draw-list index is not yet in a batch that has 32 entries is never
\* added to that batch but starts a new one.
MatrixCap == []MatrixCapState /\ [][MatrixCapStep]_vars

\* finalize returned a batch with 32 palette slots followed by a batch of the same
\* program and textures that starts with an item of a thirty-third draw list
MatrixCapReached ==
    /\ fin # None
    /\ Unwrap(fin).result # None
    /\ \E i \in 1..(Len(Unwrap(Unwrap(fin).result).batches) - 1) :
           LET b == Unwrap(Unwrap(fin).result).batches[i]
               c == Unwrap(Unwrap(fin).result).batches[i + 1]
           IN  /\ Cardinality(DOMAIN b.matrix_map) = MAX_MATRICES_PER_BATCH
               /\ c.program_id = b.program_id
               /\ c.color_texture_id = b.color_texture_id
               /\ c.mask_texture_id = b.mask_texture_id
               /\ c.sort_key.draw_list_index \notin DOMAIN b.matrix_map

\* the condition of the claim: program and textures are those of the batch, the
\* batch has fewer than 65,535 vertices, and its matrix map has the draw list of
\* the item or fewer than 32 entries
Compatible(batch, item, program_id) ==
    /\ batch.program_id = program_id
    /\ batch.color_texture_id = item.color_texture_id
    /\ batch.mask_texture_id = item.mask_texture_id
    /\ VerticesLen(batch.vertices) < 65535
    /\ \/ item.sort_key.draw_list_index \in DOMAIN batch.matrix_map
       \/ Cardinality(DOMAIN batch.matrix_map) < 32

\* the iteration of finalize for a Draw item while a batch is open
BatchFormationStep ==
    (/\ fin # None
     /\ Unwrap(fin).pos \in 1..Len(Unwrap(fin).builder.render_items)
     /\ Unwrap(fin').pos = Unwrap(fin).pos + 1
     /\ Unwrap(fin).builder.render_items[Unwrap(fin).pos].kind = "Draw"
     /\ Unwrap(fin).st.current_batch # None)
    => LET f == Unwrap(fin)
           g == Unwrap(fin')
           item == f.builder.render_items[f.pos]
           open == Unwrap(f.st.current_batch)
           now == Unwrap(g.st.current_batch)
       IN  IF Compatible(open, item, ProgramOf(f.builder, item))
           THEN /\ g.st.batches = f.st.batches
                /\ g.st.draw_commands = f.st.draw_commands
                /\ now.batch_id = open.batch_id
                /\ Len(now.vertices) = Len(open.vertices) + 1
                /\ SubSeq(now.vertices, 1, Len(open.vertices)) = open.vertices
                /\ Last(now.vertices).sort_key = item.sort_key
                /\ Last(now.vertices).vertex_count = item.vertex_count
           ELSE /\ g.st.batches = Append(f.st.batches, open)
                /\ g.st.draw_commands
                       = Append(f.st.draw_commands,
                                [render_target |-> f.builder.render_target_index,
                                 sort_key |-> open.sort_key,
                                 info |-> [kind |-> "Batch", batch_id |-> open.batch_id]])
                /\ \A b \in BatchesOf(f) : now.batch_id # b.batch_id
                /\ now.program_id = ProgramOf(f.builder, item)
                /\ now.color_texture_id = item.color_texture_id
                /\ now.mask_texture_id = item.mask_texture_id
                /\ Len(now.vertices) = 1
                /\ now.vertices[1].sort_key = item.sort_key
                /\ now.vertices[1].vertex_count = item.vertex_count

\* the positions of the Draw items among the render items, in order
DrawPositions(render_items) ==
    SelectSeq([i \in 1..Len(render_items) |-> i],
              LAMBDA i : render_items[i].kind = "Draw")

\* the number of items in the batches before the i-th
RECURSIVE ItemsBefore(_, _)
ItemsBefore(batches, i) ==
    IF i = 1 THEN 0 ELSE ItemsBefore(batches, i - 1) + Len(batches[i - 1].vertices)

\* the i-th batch holds the Draw items from..to, counted among the Draw items:
\* they are its items in order and have its program and textures, and the run
\* ends at the last item, before a Composite, or before an item that is not
\* compatible with the batch
MaximalRun(builder, batches, i) ==
    LET at == DrawPositions(builder.render_items)
        from == ItemsBefore(batches, i) + 1
        to == ItemsBefore(batches, i) + Len(batches[i].vertices)
        b == batches[i]
        item(d) == builder.render_items[at[d]]
    IN  /\ from <= to
        /\ to <= Len(at)
        /\ \A d \in from..to :
               /\ b.vertices[d - from + 1].sort_key = item(d).sort_key
               /\ b.program_id = ProgramOf(builder, item(d))
               /\ b.color_texture_id = item(d).color_texture_id
               /\ b.mask_texture_id = item(d).mask_texture_id
               /\ d > from => at[d] = at[d - 1] + 1
        /\ i = Len(batches) => to = Len(at)
        /\ i < Len(batches) =>
               \/ at[to + 1] # at[to] + 1
               \/ ~Compatible(b, item(to + 1), ProgramOf(builder, item(to + 1)))

\* what finalize returned: the batches are maximal runs, and the Batch commands
\* are those of the batches, one each, in order
BatchFormationState ==
    (fin # None /\ Unwrap(fin).result # None) =>
        LET r == Unwrap(Unwrap(fin).result)
            cmds == SelectSeq(r.draw_commands, LAMBDA c : c.info.kind = "Batch")
        IN  /\ \A i \in 1..Len(r.batches) : MaximalRun(Unwrap(fin).builder, r.batches, i)
            /\ r.batches = <<>> => DrawPositions(Unwrap(fin).builder.render_items) = <<>>
            /\ Len(cmds) = Len(r.batches)
            /\ \A i \in 1..Len(cmds) :
                   /\ cmds[i].info.batch_id = r.batches[i].batch_id
                   /\ cmds[i].sort_key = r.batches[i].sort_key

\* C24: batch formation.  finalize adds a draw item to the open batch exactly when
\* the program, the color texture and the mask texture of the item equal the
\* batch's, the batch has fewer than 65,535 vertices, and the matrix map already
\* contains the draw-list index of the item or has fewer than 32 entries;
\* otherwise it emits the open batch as one Batch command and starts a new batch
\* with the item; every batch is a maximal run of consecutive compatible items
\* that share program and textures.
BatchFormation == []BatchFormationState /\ [][BatchFormationStep]_vars

\* finalize returned a batch of several items closed by an item of another program,
\* and a batch closed by its vertex count before an item of its own program
BatchesClosedBothWays ==
    /\ fin # None
    /\ Unwrap(fin).result # None
    /\ LET r == Unwrap(Unwrap(fin).result)
           at == DrawPositions(Unwrap(fin).builder.render_items)
           nxt(i) == Unwrap(fin).builder.render_items[at[ItemsBefore(r.batches, i + 1) + 1]]
       IN  /\ \E i \in 1..(Len(r.batches) - 1) :
                  /\ Len(r.batches[i].vertices) > 1
                  /\ r.batches[i].program_id # ProgramOf(Unwrap(fin).builder, nxt(i))
           /\ \E i \in 1..(Len(r.batches) - 1) :
                  /\ VerticesLen(r.batches[i].vertices) >= 65535
                  /\ r.batches[i].program_id = ProgramOf(Unwrap(fin).builder, nxt(i))
                  /\ at[ItemsBefore(r.batches, i + 1) + 1]
                         = at[ItemsBefore(r.batches, i + 1)] + 1

\* the iteration of finalize for a Composite item: the open batch, when there is
\* one, is pushed with its Batch command, then the Composite command of the item
\* follows, and no batch is open
CompositeStep ==
    (/\ fin # None
     /\ Unwrap(fin).pos \in 1..Len(Unwrap(fin).builder.render_items)
     /\ Unwrap(fin').pos = Unwrap(fin).pos + 1
     /\ Unwrap(fin).builder.render_items[Unwrap(fin).pos].kind = "Composite")
    => LET f == Unwrap(fin)
           g == Unwrap(fin')
           item == f.builder.render_items[f.pos]
           closed == IF f.st.current_batch = None THEN <<>>
                     ELSE <<[render_target |-> f.builder.render_target_index,
                             sort_key |-> Unwrap(f.st.current_batch).sort_key,
                             info |-> [kind |-> "Batch",
                                       batch_id |-> Unwrap(f.st.current_batch).batch_id]]>>
       IN  /\ g.st.current_batch = None
           /\ g.st.batches = f.st.batches \o f.st.current_batch
           /\ Len(g.st.draw_commands) = Len(f.st.draw_commands) + Len(closed) + 1
           /\ SubSeq(g.st.draw_commands, 1, Len(f.st.draw_commands) + Len(closed))
                  = f.st.draw_commands \o closed
           /\ Last(g.st.draw_commands).render_target = f.builder.render_target_index
           /\ Last(g.st.draw_commands).sort_key = item.sort_key
           /\ Last(g.st.draw_commands).info.kind = "Composite"
           /\ Last(g.st.draw_commands).info.color_texture_id = item.color_texture_id
           /\ Last(g.st.draw_commands).info.blend_mode = item.blend_mode

\* the iteration of finalize for a Draw item that follows a Composite item: the
\* item is the only one of a batch that did not exist before
AfterCompositeStep ==
    (/\ fin # None
     /\ Unwrap(fin).pos \in 2..Len(Unwrap(fin).builder.render_items)
     /\ Unwrap(fin').pos = Unwrap(fin).pos + 1
     /\ Unwrap(fin).builder.render_items[Unwrap(fin).pos].kind = "Draw"
     /\ Unwrap(fin).builder.render_items[Unwrap(fin).pos - 1].kind = "Composite")
    => LET f == Unwrap(fin)
           now == Unwrap(Unwrap(fin').st.current_batch)
       IN  /\ \A b \in BatchesOf(f) : now.batch_id # b.batch_id
           /\ Len(now.vertices) = 1
           /\ now.vertices[1].sort_key = f.builder.render_items[f.pos].sort_key
           /\ Unwrap(fin').st.batches = f.st.batches
           /\ Unwrap(fin').st.draw_commands = f.st.draw_commands

\* what finalize returned: no batch has items of both sides of a Composite item,
\* and every Composite item has its command, after the Batch commands of the items
\* before it and before those of the items after it
CompositeState ==
    (fin # None /\ Unwrap(fin).result # None) =>
        LET r == Unwrap(Unwrap(fin).result)
            items == Unwrap(fin).builder.render_items
        IN  \A p \in 1..Len(items) :
                items[p].kind = "Composite" =>
                    /\ \A i \in 1..Len(r.batches) :
                           \/ \A v \in 1..Len(r.batches[i].vertices) :
                                  KeyLess(r.batches[i].vertices[v].sort_key, items[p].sort_key)
                           \/ \A v \in 1..Len(r.batches[i].vertices) :
                                  KeyLess(items[p].sort_key, r.batches[i].vertices[v].sort_key)
                    /\ \E c \in 1..Len(r.draw_commands) :
                           /\ r.draw_commands[c].info.kind = "Composite"
                           /\ r.draw_commands[c].sort_key = items[p].sort_key
                           /\ \A d \in 1..Len(r.draw_commands) :
                                  r.draw_commands[d].info.kind = "Batch" =>
                                      (d < c <=> KeyLess(r.draw_commands[d].sort_key,
                                                         items[p].sort_key))

\* C25: a Composite render item always closes the open batch of its builder: the
\* output of the builder has the Batch command of the items before the composite,
\* then a standalone Composite command that carries the sort key, the source
\* texture id and the blend mode of the composite item, and the items after the
\* composite always start a new batch.
CompositeFlushes ==
    /\ []CompositeState
    /\ [][CompositeStep]_vars
    /\ [][AfterCompositeStep]_vars

\* finalize returned a Batch command, a Composite command and a Batch command of
\* the program and textures of the first, in this order
CompositeBetweenBatches ==
    /\ fin # None
    /\ Unwrap(fin).result # None
    /\ LET r == Unwrap(Unwrap(fin).result)
       IN  \E c \in 2..(Len(r.draw_commands) - 1) :
               /\ r.draw_commands[c].info.kind = "Composite"
               /\ r.draw_commands[c - 1].info.kind = "Batch"
               /\ r.draw_commands[c + 1].info.kind = "Batch"
               /\ \E i \in 1..(Len(r.batches) - 1) :
                      /\ r.batches[i].batch_id = r.draw_commands[c - 1].info.batch_id
                      /\ r.batches[i + 1].batch_id = r.draw_commands[c + 1].info.batch_id
                      /\ r.batches[i + 1].program_id = r.batches[i].program_id
                      /\ r.batches[i + 1].color_texture_id = r.batches[i].color_texture_id
                      /\ r.batches[i + 1].mask_texture_id = r.batches[i].mask_texture_id

----------------------------------------------------------------------------
(* Claims about assets, checked under AssetSpec *)

\* the entries of asset_log of one operation
LogEntries(op) == {i \in DOMAIN asset_log : asset_log[i].op = op}

IsImageKey(key) == "image_id" \in DOMAIN key

IsGlyphKey(key) == "font_id" \in DOMAIN key

\* no key has two entries among those of ops
AtMostOnce(entries) ==
    \A i, j \in entries : asset_log[i].key = asset_log[j].key => i = j

OneShotLog ==
    /\ AtMostOnce(LogEntries("job"))
    /\ AtMostOnce({i \in LogEntries("insert") : IsGlyphKey(asset_log[i].key)})
    /\ AtMostOnce(LogEntries("insert_raster_op"))
    /\ \A i \in LogEntries("insert") : IsImageKey(asset_log[i].key) => ~asset_log[i].held

\* every entry of the map stays what it is
Keeps(map_before, map_after) ==
    \A k \in DOMAIN map_before : k \in DOMAIN map_after /\ map_after[k] = map_before[k]

MapsKeepStep ==
    /\ Keeps(glyph_to_image_map, glyph_to_image_map')
    /\ Keeps(raster_to_image_map, raster_to_image_map')

\* C28: over all the renders of a session every glyph key gets at most one raster
\* job and at most one insert into the texture cache, every raster item at most
\* one insert_raster_op, an image is inserted only when the cache does not hold
\* it, and no entry of glyph_to_image_map or raster_to_image_map ever changes
OneShotAssets == []OneShotLog /\ [][MapsKeepStep]_vars

\* the nodes whose resource list holds the glyph key, or the raster item
NodesNeeding(kind, key) ==
    {n \in 1..Len(nodes) :
        /\ nodes[n].resource_list # None
        /\ key \in (IF kind = "glyph" THEN Unwrap(nodes[n].resource_list).glyphs
                    ELSE Unwrap(nodes[n].resource_list).rasters)}

\* two tiles compiled in one render need the same glyph, and two the same mask;
\* and the latest render compiled a tile that needs a glyph and an image that an
\* earlier render had inserted
AssetNeededAgain ==
    /\ ~panicked
    /\ \E i \in LogEntries("job") :
          Cardinality(NodesNeeding("glyph", asset_log[i].key)) > 1
    /\ \E i \in LogEntries("insert_raster_op") :
          Cardinality(NodesNeeding("raster", asset_log[i].key)) > 1
    /\ \E l \in compile_lookups : \E i \in LogEntries("job") :
          /\ l.kind = "glyph" /\ asset_log[i].key = l.key
          /\ asset_log[i].render < msg_count.root + msg_count.scroll
    /\ \E l \in compile_lookups : \E i \in LogEntries("insert") :
          /\ l.kind = "image" /\ asset_log[i].key = l.key
          /\ asset_log[i].render < msg_count.root + msg_count.scroll

\* C29: when compile starts for a tile, every image, glyph and mask its items
\* look up is in glyph_to_image_map or raster_to_image_map and in the texture
\* cache: no lookup of compile finds nothing
AssetsReady == \A l \in compile_lookups : l.present

\* the lookups of the dots of dotted borders
DotLookups ==
    {l \in compile_lookups : l.kind = "raster" /\ l.key.raster = "BorderRadius" /\ l.key.b = 0}

\* the lookups of compile other than those of the dots all find their image
AssetsReadyButDots ==
    \A l \in compile_lookups \ DotLookups : l.present

----------------------------------------------------------------------------
(* Claims about the index buffer, checked under BatchSpec *)

\* the indices of the run are those of its own vertices: those of the groups of
\* four of a run of rectangles or glyphs at b = index_offset + i are b, b+1, b+2,
\* b+2, b+3, b+1; those of the i-th triangle of a fan at b = index_offset are b,
\* b+i, b+i+1; and every one is below vertices.len()
RunExact(batch, run, checked) ==
    IF run.primitive = "TriangleFan"
    THEN \A i \in 1..(run.vertex_count - 2) :
             /\ FanIndices(run.index_offset, i)
                    = <<run.index_offset, run.index_offset + i, run.index_offset + i + 1>>
             /\ run.index_offset + i + 1 < VerticesLen(batch.vertices)
    ELSE \A g \in 0..((run.vertex_count + 3) \div 4 - 1) :
             /\ QuadIndices(run.index_offset, 4 * g, checked)
                    = <<run.index_offset + 4 * g, run.index_offset + 4 * g + 1,
                        run.index_offset + 4 * g + 2, run.index_offset + 4 * g + 2,
                        run.index_offset + 4 * g + 3, run.index_offset + 4 * g + 1>>
             /\ run.index_offset + 4 * g + 3 < VerticesLen(batch.vertices)

\* C30: every index written to the index buffer of a batch is the position in the
\* batch of one of its vertices, the conversion to u16 never wraps, a group of
\* four vertices at b gets b+{0,1,2,2,3,1} and a fan of n vertices at b gets
\* (b, b+i, b+i+1) for i in 1..n-2, for every mix of rectangles, glyph runs and
\* fans in one batch
IndexExact ==
    fin # None =>
        \A b \in BatchesOf(Unwrap(fin)) : \A r \in 1..Len(b.vertices) :
            \A checked \in BOOLEAN : RunExact(b, b.vertices[r], checked)

\* the first and the last vertices of a run, as a run each: the indices of the
\* vertices between them lie between theirs
Ends(run) ==
    IF run.vertex_count <= 16 THEN {run}
    ELSE {[run EXCEPT !.vertex_count = 8],
          [run EXCEPT !.index_offset = @ + run.vertex_count - 8, !.vertex_count = 8]}

\* the same of the batches that hold no more than 65,535 vertices, at the ends of
\* every run
IndexExactWithinCap ==
    fin # None =>
        \A b \in BatchesOf(Unwrap(fin)) :
            VerticesLen(b.vertices) <= MAX_VERTICES_PER_BATCH =>
                \A r \in 1..Len(b.vertices) : \A run \in Ends(b.vertices[r]) :
                    \A checked \in BOOLEAN : RunExact(b, run, checked)

----------------------------------------------------------------------------
(* Claims about collect_draw_lists, checked under CollectSpec *)

\* the ids of the slots of a display list that have a draw list, in slot order
PresentIds(display_list) ==
    display_list.background_and_borders_id \o display_list.block_backgrounds_and_borders_id
        \o display_list.floats_id \o display_list.content_id
        \o display_list.positioned_content_id \o display_list.outlines_id

\* what the display list gives to the n-th slot of the stacking context
RoutedTo(n, display_list) ==
    CASE display_list.mode = "Default" ->
             <<display_list.background_and_borders_id,
               display_list.block_backgrounds_and_borders_id,
               display_list.floats_id, display_list.content_id,
               display_list.positioned_content_id, display_list.outlines_id>>[n]
      [] display_list.mode = "PseudoFloat" ->
             IF n = 3 THEN PresentIds(display_list) ELSE <<>>
      [] display_list.mode = "PseudoPositionedContent" ->
             IF n = 5 THEN PresentIds(display_list) ELSE <<>>

\* the n-th slot of the stacking context, from the display lists in order
RECURSIVE RoutedSlot(_, _, _)
RoutedSlot(n, display_lists, stored) ==
    IF display_lists = <<>> THEN <<>>
    ELSE RoutedTo(n, stored[Head(display_lists)])
             \o RoutedSlot(n, Tail(display_lists), stored)

\* C31: a Default display list gives each of its six draw lists to the slot of the
\* same name, a PseudoFloat one gives every draw list it has to floats, a
\* PseudoPositionedContent one to positioned_content, in slot order within a
\* display list and display lists in their order; a slot without items gives nothing
ModeRouting ==
    fin # None =>
        LET f == Unwrap(fin)
            slot(n) == RoutedSlot(n, f.display_lists, f.display_list_map)
        IN  /\ f.result.background_and_borders = slot(1)
            /\ f.result.block_background_and_borders = slot(2)
            /\ f.result.floats = slot(3)
            /\ f.result.content = slot(4)
            /\ f.result.positioned_content = slot(5)
            /\ f.result.outlines = slot(6)

\* the draw lists of a stacking context that names a PseudoFloat display list with
\* some slots empty and then a PseudoPositionedContent one, or the other way round,
\* were collected
RoutedBothPseudoModes ==
    /\ fin # None
    /\ Len(Unwrap(fin).display_lists) = 2
    /\ {Unwrap(fin).display_list_map[Unwrap(fin).display_lists[k]].mode : k \in 1..2}
           = {"PseudoFloat", "PseudoPositionedContent"}
    /\ \E k \in 1..2 :
           Len(PresentIds(Unwrap(fin).display_list_map[Unwrap(fin).display_lists[k]]))
               \in 1..5
    /\ Len(Unwrap(fin).result.floats) > 0
    /\ Len(Unwrap(fin).result.positioned_content) > 0

----------------------------------------------------------------------------
(* Claims about iframes, checked under FlattenSpec *)

SlotIds(display_list) ==
    <<display_list.background_and_borders_id, display_list.block_backgrounds_and_borders_id,
      display_list.floats_id, display_list.content_id,
      display_list.positioned_content_id, display_list.outlines_id>>

\* flat draw list f came from one of these slots of a display list
FromSlots(f, slots) ==
    /\ flat_draw_lists[f].id # None
    /\ \E d \in DOMAIN display_list_map, n \in slots :
           SlotIds(display_list_map[d])[n] = flat_draw_lists[f].id

\* every draw list of the root is in the scene, with the identity translated by
\* offset (and then by the origin of the root's bounds) as its transform
FlattenedAt(root, offset) ==
    \A i \in 1..Len(root.stacking_context.display_lists), n \in 1..6 :
        LET id == SlotIds(display_list_map[root.stacking_context.display_lists[i]])[n]
        IN  id # None =>
                \E g \in 1..Len(flat_draw_lists) :
                    /\ flat_draw_lists[g].id = id
                    /\ flat_draw_lists[g].draw_context.final_transform
                           = translate(translate(identity, offset.x, offset.y),
                                       root.stacking_context.bounds.x,
                                       root.stacking_context.bounds.y)

\* the iframes among the items of the draw lists that came from these slots have
\* their documents in the scene
IframesOfSlotsFlattened(slots) ==
    SceneJustBuilt =>
        \A f \in 1..Len(flat_draw_lists) :
            FromSlots(f, slots) =>
                \A j \in 1..Len(flat_draw_lists[f].draw_list) :
                    LET item == flat_draw_lists[f].draw_list[j]
                    IN  (item.item = "Iframe" /\ item.iframe \in DOMAIN stacking_contexts)
                            => FlattenedAt(
                                   stacking_contexts[item.iframe],
                                   transform_point(
                                       flat_draw_lists[f].draw_context.final_transform,
                                       Point(item.rect.x, item.rect.y)))

\* C32: for every Iframe item in any of the six slots of a stacking context,
\* background_and_borders through outlines, whose pipeline has a root stacking
\* context, that root is flattened with the identity translated by the item's
\* origin mapped through the final transform of the draw list the item is in
IframesFlattened == IframesOfSlotsFlattened(1..6)

\* the same for the five slots before outlines
IframesBeforeOutlinesFlattened == IframesOfSlotsFlattened(1..5)

\* a scene was built from a root with an iframe in its background and one in its
\* content, both with a document
IframesInScene ==
    /\ SceneJustBuilt
    /\ \A n \in {1, 4} :
           \E f \in 1..Len(flat_draw_lists) :
               /\ FromSlots(f, {n})
               /\ \E j \in 1..Len(flat_draw_lists[f].draw_list) :
                      /\ flat_draw_lists[f].draw_list[j].item = "Iframe"
                      /\ flat_draw_lists[f].draw_list[j].iframe \in DOMAIN stacking_contexts

----------------------------------------------------------------------------
(* Claims about render targets, checked under RebuildSpec *)

\* the textures of the render targets, in order
TexturesOf(rts) ==
    LET offscreen == SelectSeq(rts, LAMBDA rt : rt.texture_id # None)
    IN  [k \in 1..Len(offscreen) |-> Unwrap(offscreen[k].texture_id)]

Once(s) == \A a, b \in 1..Len(s) : s[a] = s[b] => a = b

Elements(s) == {s[k] : k \in 1..Len(s)}

\* the textures of the render targets are the allocated ones, none was freed, and
\* every texture ever allocated is with a render target or was freed, once;
\* render target 0 has no texture and the others have one
TexturesHeld ==
    /\ Once(TexturesOf(render_targets))
    /\ Elements(TexturesOf(render_targets)) = texture_cache.allocated
    /\ Once(texture_cache.freed)
    /\ Elements(texture_cache.freed) \cap texture_cache.allocated = {}
    /\ Elements(texture_cache.freed) \cup texture_cache.allocated
           = 1..(texture_cache.next - 1)
    /\ render_targets # <<>> =>
           /\ render_targets[1].texture_id = None
           /\ \A k \in 2..Len(render_targets) : render_targets[k].texture_id # None

\* a step in which build_scene found the root and ran Scene::reset
ResetRan ==
    /\ msg_count'.root # msg_count.root
    /\ ~panicked'
    /\ ROOT_PIPELINE_ID \in DOMAIN stacking_contexts'

\* a step frees the textures of the render targets if it ran reset, and nothing
\* otherwise
TexturesStep ==
    texture_cache'.freed =
        texture_cache.freed \o (IF ResetRan THEN TexturesOf(render_targets) ELSE <<>>)

\* C33: every texture allocate_render_target gave during a flatten is freed exactly
\* once, by the next Scene::reset, never twice and never before that reset; render
\* target 0 is the default framebuffer, without a texture, and every other render
\* target has a texture
TextureLifecycle == []TexturesHeld /\ [][TexturesStep]_vars

\* the two textures of one scene were freed by the reset of the next, which has a
\* texture of its own
TextureFreedByNextReset ==
    /\ Len(texture_cache.freed) >= 2
    /\ texture_cache.allocated # {}
    /\ Len(render_targets) >= 2
    /\ ~panicked

----------------------------------------------------------------------------
(* Claims about the draw lists, checked under RebuildSpec *)

\* the draw-list ids of the stored display lists
StoredDrawListIds == UNION {DrawListIds(display_list_map[k]) : k \in DOMAIN display_list_map}

\* the draw lists of the display lists a step removed
RemovedDrawListIds ==
    UNION {DrawListIds(display_list_map[k]) :
              k \in (DOMAIN display_list_map) \ (DOMAIN display_list_map')}

\* every stored id is in draw_list_map or in one entry of flat_draw_lists, never in
\* both, and a scene just built holds the lists its root refers to
DrawListsHeld ==
    /\ Once(FlatOrder)
    /\ Elements(FlatOrder) \cap DOMAIN draw_list_map = {}
    /\ StoredDrawListIds \subseteq Elements(FlatOrder) \cup DOMAIN draw_list_map
    /\ SceneJustBuilt =>
           Elements(FlatOrder)
               = Elements(ClaimedOrder(stacking_contexts[ROOT_PIPELINE_ID].stacking_context))

\* a SetRootStackingContext keeps every draw list but those of the display lists it
\* removed, whether it built a scene or not; no other step moves a draw list
DrawListsStep ==
    /\ (msg_count'.root # msg_count.root /\ ~panicked') =>
           /\ Elements(FlatOrder') \cup DOMAIN draw_list_map'
                  = (Elements(FlatOrder) \cup DOMAIN draw_list_map) \ RemovedDrawListIds
           /\ ROOT_PIPELINE_ID \notin DOMAIN stacking_contexts' => flat_draw_lists' = <<>>
    /\ msg_count'.root = msg_count.root =>
           /\ flat_draw_lists' = flat_draw_lists
           /\ DOMAIN draw_list_map \subseteq DOMAIN draw_list_map'

\* C34: between messages every stored draw-list id is in exactly one place,
\* draw_list_map or one entry of flat_draw_lists, never both and never twice in
\* flat_draw_lists; SetRootStackingContext returns every flattened draw list that
\* has an id to draw_list_map, and flattening moves each list the root refers to out
\* of the map
DrawListsConserved == []DrawListsHeld /\ [][DrawListsStep]_vars

\* a scene was replaced by another: draw lists went back to the map, the lists of
\* the new root left it, and some stored lists are in the map
DrawListsMoved ==
    /\ SceneJustBuilt
    /\ msg_count.root >= 2
    /\ Len(FlatOrder) >= 2
    /\ StoredDrawListIds \cap DOMAIN draw_list_map # {}
    /\ ~panicked

----------------------------------------------------------------------------
(* Claims about the visible nodes, checked under RebuildSpec *)

\* every visible node of the tree has a resource list
ResourceListsSet(tree) ==
    \A i \in 1..Len(tree) : tree[i].is_visible => tree[i].resource_list # None

\* every visible node of the tree has a compiled node
CompiledNodesSet(tree) ==
    \A i \in 1..Len(tree) : tree[i].is_visible => tree[i].compiled_node # None

\* the build_frame of a scroll to offset: the unwrap of resource_list finds one
\* after cull and update_resource_lists, and the unwrap of compiled_node after
\* compile_visible_nodes
StagesHold(offset) ==
    LET culled == Culled(nodes, flat_draw_lists, offset)
    IN  /\ ResourceListsSet(culled)
        /\ CompiledNodesSet(compile_visible_nodes(culled, flat_draw_lists,
                                                  next_batch_id).tree)

\* C35: within one build_frame, after cull, update_resource_lists and
\* compile_visible_nodes, every node marked visible has a resource list and a
\* compiled node, so the assertion and the unwraps hold, for every sequence of
\* SetRootStackingContext and Scroll messages: in the tree a frame was assembled
\* from, and at the two unwraps of the frame any next Scroll builds
FrameAssembles ==
    ~panicked =>
        /\ ResourceListsSet(nodes)
        /\ CompiledNodesSet(nodes)
        /\ \A delta \in Deltas : StagesHold(scroll(scroll_offset, delta))

\* a frame was assembled after a scroll: some tiles are visible, and a tile compiled
\* for an earlier frame is not
AssembledAfterScroll ==
    /\ ~panicked
    /\ scroll_hist # <<>>
    /\ \E i \in 1..Len(nodes) : nodes[i].is_visible /\ nodes[i].src_items # <<>>
    /\ \E i \in 1..Len(nodes) : ~nodes[i].is_visible /\ nodes[i].compiled_node # None

----------------------------------------------------------------------------
(* Claims about the batches of a frame, checked under RebuildSpec *)

\* the batch received a Create, and no Destroy after its last Create
CreatedAndLive(batch_id) ==
    \E i \in 1..Len(batch_log) :
        /\ batch_log[i].op = "Create"
        /\ batch_log[i].id = batch_id
        /\ \A j \in (i + 1)..Len(batch_log) : batch_log[j].id # batch_id

\* the messages of a render: UpdateBatches, if sent, goes before NewFrame
UpdatesBeforeFrame ==
    \A m, n \in 1..Len(result_msgs) :
        (result_msgs[m].msg = "UpdateBatches" /\ result_msgs[n].msg = "NewFrame") => m < n

\* C36: every batch id a Batch command of a NewFrame refers to received a Create in
\* an UpdateBatches sent before that NewFrame, and no Destroy since
KnownBatches ==
    /\ UpdatesBeforeFrame
    /\ last_frame # None =>
           \A batch_id \in FrameBatchIds(Unwrap(last_frame)) : CreatedAndLive(batch_id)

\* the frame of a scroll draws a batch created for an earlier frame and one
\* created for this one
FrameOfOldAndNewBatches ==
    /\ ~panicked
    /\ scroll_hist # <<>>
    /\ last_frame # None
    /\ FrameBatchIds(Unwrap(last_frame)) \ CreatedNow # {}
    /\ FrameBatchIds(Unwrap(last_frame)) \cap CreatedNow # {}

----------------------------------------------------------------------------
(* Claims about the start of the backend, checked under PoolFair *)

\* C37: RenderBackend::new eventually returns, for the first backend made in the
\* process and for any later one: the barrier lets every init task go
NewReturns == <>(coordinator.pc # "new")

\* new returns in a process that made no backend before
FirstNewReturns == (font_context_count = 0) => <>(coordinator.pc # "new")

\* every init task of a later backend is in its loop, the count past thread_count
AllWaiting ==
    /\ coordinator.pc = "new"
    /\ font_context_count = 2 * THREAD_COUNT
    /\ \A w \in Workers : Running(w, "wait")

----------------------------------------------------------------------------
(* Claims about the render-target stack, checked under RebuildSpec *)

\* what build_scene leaves when root m is set in this state
SceneBuiltFor(m) ==
    build_scene(KeptDrawLists(m), KeptDisplayLists(m), WithRoot(m),
                nodes, render_targets, texture_cache)

\* the render-target stack is empty when build_scene returns, and as many render
\* targets were popped as pushed
StackBalanced(b) ==
    (b.built /\ ~b.panic) => b.fs.stack = <<>>

\* the render targets that list flat draw list f, with repeats
ListedBy(f) ==
    {<<t, k>> \in (1..Len(render_targets)) \X (1..Len(flat_draw_lists)) :
        /\ k <= Len(render_targets[t].draw_list_indices)
        /\ render_targets[t].draw_list_indices[k] = f}

\* C38: the render-target stack is empty before and after every build_scene, so the
\* assertion of reset holds and every push of a flatten has its pop; and each index
\* of flat_draw_lists is in the draw_list_indices of exactly one render target, once,
\* the one the draw context of that draw list names
RenderTargetBookkeeping ==
    ~panicked =>
        /\ \A m \in RebuildRoots : StackBalanced(SceneBuiltFor(m))
        /\ \A f \in 0..(Len(flat_draw_lists) - 1) :
               \E t \in 1..Len(render_targets) :
                   /\ t - 1 = flat_draw_lists[f + 1].draw_context.render_target_index
                   /\ \E k \in 1..Len(flat_draw_lists) : ListedBy(f) = {<<t, k>>}

\* a second scene was built, with an offscreen context inside another: three render
\* targets, each with draw lists
NestedTargetsRebuilt ==
    /\ ~panicked
    /\ msg_count.root >= 2
    /\ Len(render_targets) = 3
    /\ \A t \in 1..3 : render_targets[t].draw_list_indices # <<>>

----------------------------------------------------------------------------
(* Claims about DisplayItemIterator, checked under RebuildSpec *)

\* the keys of every item of the scene, in ascending order
AllKeys ==
    Concat([d \in 1..Len(flat_draw_lists) |->
               [i \in 1..Len(flat_draw_lists[d].draw_list) |-> Key(d - 1, i - 1)]])

\* what the iterator yields until next returns None, or in fuel calls of next
RECURSIVE Yields(_, _)
Yields(it, fuel) ==
    IF it.current_key = it.last_key \/ fuel = 0 THEN <<>>
    ELSE <<it.current_key>> \o Yields(next(it, flat_draw_lists), fuel - 1)

\* the iterator of the node ends within as many calls of next as the scene has
\* items, and yields the keys from the first src_item to the last, each once, in
\* ascending order
YieldsRange(node) ==
    LET yielded == Yields(DisplayItemIterator(node.src_items), Len(AllKeys) + 1)
    IN  /\ Len(yielded) <= Len(AllKeys)
        /\ yielded = IF node.src_items = <<>> THEN <<>>
                     ELSE SelectSeq(AllKeys,
                                    LAMBDA k : /\ ~KeyLess(k, Head(node.src_items))
                                               /\ ~KeyLess(Last(node.src_items), k))

\* C39: the src_items of every node are strictly increasing in (draw_list_index,
\* item_index) order and every flat draw list has at least one item, so the
\* DisplayItemIterator of the node ends and yields, once each and in ascending order,
\* every key from the first src_item to the last, both included, across the ends of
\* draw lists, and no key with an item index out of range
IteratorExact ==
    /\ \A d \in 1..Len(flat_draw_lists) : Len(flat_draw_lists[d].draw_list) >= 1
    /\ \A n \in 1..Len(nodes) :
           /\ \A a, b \in 1..Len(nodes[n].src_items) :
                  a < b => KeyLess(nodes[n].src_items[a], nodes[n].src_items[b])
           /\ YieldsRange(nodes[n])

\* the items of a tile are in three draw lists or more, and the iterator yields keys
\* of other tiles between them
IteratorCrossesLists ==
    \E n \in 1..Len(nodes) :
        /\ nodes[n].src_items # <<>>
        /\ Last(nodes[n].src_items).draw_list_index
               >= Head(nodes[n].src_items).draw_list_index + 2
        /\ Len(Yields(DisplayItemIterator(nodes[n].src_items), Len(AllKeys) + 1))
               > Len(nodes[n].src_items)

----------------------------------------------------------------------------
(* Claims about the auxiliary lists, checked under AuxSpec *)

\* C40: for any sequence of add_gradient_stops, add_complex_clip_regions,
\* add_filters and add_glyph_instances calls on an AuxiliaryListsBuilder, the
\* ItemRange each call returned retrieves exactly the items of that call, from the
\* builder and from the AuxiliaryLists finalize makes, and the four sizes of the
\* descriptor sum to the length of the data
AuxRoundTrip ==
    LET f == Unwrap(fin)
    IN  /\ \A c \in 1..Len(f.calls) :
               /\ BuilderGet(f.builder, f.calls[c].kind, f.calls[c].range)
                      = Some(f.calls[c].items)
               /\ f.lists # None =>
                      ListsGet(Unwrap(f.lists), f.calls[c].kind, f.calls[c].range)
                          = Some(f.calls[c].items)
        /\ f.lists # None =>
               DescriptorSize(Unwrap(f.lists).descriptor) = Len(Unwrap(f.lists).data)

\* lists were finalized after two calls for one kind, the second with items, and
\* a call for a kind stored behind it
AuxFinalized ==
    LET f == Unwrap(fin)
    IN  /\ f.lists # None
        /\ \E a, b, c \in 1..Len(f.calls) :
               /\ a < b
               /\ f.calls[a].kind = "gradient_stops"
               /\ f.calls[b].kind = "gradient_stops"
               /\ f.calls[a].items # <<>>
               /\ f.calls[b].items # <<>>
               /\ f.calls[c].kind = "glyph_instances"
               /\ \E k \in 1..Len(f.calls[c].items) : f.calls[c].items[k] = 300

====
